---- MODULE Spec2Model ----
(***************************************************************************)
(* Model of the retrieval subsystem of the AI Unity Game Generator:       *)
(* RAGPipeline (src/backend/app/rag/rag_pipeline.py) and the backend       *)
(* endpoints that call it (src/backend/app/main.py).                       *)
(*                                                                         *)
(* A content string is modelled as the sequence of its words; a Python     *)
(* dict is modelled as the sequence of its [k, v] entries in insertion     *)
(* order (dicts are ordered); the persisted file is the sequence of the    *)
(* JSON tokens json.dump writes, each with the bytes it takes in the text. *)
(***************************************************************************)
EXTENDS Integers, Sequences, FiniteSets, TLC

\* ------------------------------------------------------------------ bounds
MaxItems == 2      \* longest content list passed to one add_to_knowledge_base
MaxAdds == 2       \* add_to_knowledge_base calls in one behaviour
MaxSeedAdds == 1   \* runs of the test script's add on one location

\* ------------------------------------------------------------ Python dicts
DictHas(d, k) == \E i \in 1..Len(d) : d[i].k = k

DictGet(d, k) == d[CHOOSE i \in 1..Len(d) : d[i].k = k].v

\* d[k] = v: an existing key keeps its position, a new key goes last
DictSet(d, k, v) ==
    IF DictHas(d, k)
    THEN [i \in 1..Len(d) |-> IF d[i].k = k THEN [k |-> k, v |-> v] ELSE d[i]]
    ELSE Append(d, [k |-> k, v |-> v])

RECURSIVE SumSeq(_)
SumSeq(s) == IF s = <<>> THEN 0 ELSE Head(s) + SumSeq(Tail(s))

RECURSIVE Concat(_)
Concat(ss) == IF ss = <<>> THEN <<>> ELSE Head(ss) \o Concat(Tail(ss))

\* a numpy array: its elements are computed when it is made
Array(f) == f \o <<>>

\* ------------------------------------------------- float64 arithmetic
(***************************************************************************)
(* numpy/scipy compute in IEEE-754 binary64: every operation gives the     *)
(* float nearest to the exact result, ties to even.  A float is [m, e]     *)
(* with value M * 2^e, where m holds the natural number M as four digits   *)
(* of base 2^14, least significant first.  2^55 <= M < 2^56 and the three  *)
(* lowest bits of M are 0, so that M / 8 is the 53-bit significand of      *)
(* binary64; zero is m = <<0, 0, 0, 0>>, e = 0.  Only non-negative floats  *)
(* occur (counts, idf >= 1, norms, products of these).  Digits of 14 bits  *)
(* keep every intermediate within 32-bit integers.  The operations, their  *)
(* order and their rounding points are those of the library code.          *)
(***************************************************************************)
Base == 2^14

Zero == [m |-> <<0, 0, 0, 0>>, e |-> 0]

IsZero(a) == a.m[4] = 0

RECURSIVE BitLen(_)
BitLen(n) == IF n = 0 THEN 0 ELSE 1 + BitLen(n \div 2)

Digit(d, i) == IF i >= 1 /\ i <= Len(d) THEN d[i] ELSE 0

\* column sums (of either sign) brought to digits, from the least significant:
\* d the digits, c what is carried out of the last column
Carry4(cols) ==
    LET t1 == cols[1]
        t2 == cols[2] + (t1 \div Base)
        t3 == cols[3] + (t2 \div Base)
        t4 == cols[4] + (t3 \div Base)
    IN  [d |-> <<t1 % Base, t2 % Base, t3 % Base, t4 % Base>>, c |-> t4 \div Base]

Carry6(cols) ==
    LET t1 == cols[1]
        t2 == cols[2] + (t1 \div Base)
        t3 == cols[3] + (t2 \div Base)
        t4 == cols[4] + (t3 \div Base)
        t5 == cols[5] + (t4 \div Base)
        t6 == cols[6] + (t5 \div Base)
    IN  [d |-> <<t1 % Base, t2 % Base, t3 % Base, t4 % Base, t5 % Base, t6 % Base>>,
         c |-> t6 \div Base]

Carry8(cols) ==
    LET t1 == cols[1]
        t2 == cols[2] + (t1 \div Base)
        t3 == cols[3] + (t2 \div Base)
        t4 == cols[4] + (t3 \div Base)
        t5 == cols[5] + (t4 \div Base)
        t6 == cols[6] + (t5 \div Base)
        t7 == cols[7] + (t6 \div Base)
        t8 == cols[8] + (t7 \div Base)
    IN  [d |-> <<t1 % Base, t2 % Base, t3 % Base, t4 % Base,
                 t5 % Base, t6 % Base, t7 % Base, t8 % Base>>,
         c |-> t8 \div Base]

\* z + 8 * 2^0 ran over the lowest digit: the carry moves up; a significand
\* of 2^56 is 2^55 with the exponent one higher
Bumped(z, e) ==
    IF z[1] < Base THEN [m |-> z, e |-> e]
    ELSE IF z[2] + 1 < Base THEN [m |-> <<0, z[2] + 1, z[3], z[4]>>, e |-> e]
    ELSE IF z[3] + 1 < Base THEN [m |-> <<0, 0, z[3] + 1, z[4]>>, e |-> e]
    ELSE IF z[4] + 1 < Base THEN [m |-> <<0, 0, 0, z[4] + 1>>, e |-> e]
    ELSE [m |-> <<0, 0, 0, Base \div 2>>, e |-> e + 1]

\* z of 56 bits, sticky when the exact value lies above z * 2^e: the three
\* lowest bits are cut, to nearest, ties to even
Cut(z, e, sticky) ==
    IF z[1] % 8 > 4 \/ (z[1] % 8 = 4 /\ (sticky \/ (z[1] \div 8) % 2 = 1))
    THEN Bumped([z EXCEPT ![1] = @ - (@ % 8) + 8], e)
    ELSE [m |-> [z EXCEPT ![1] = @ - (@ % 8)], e |-> e]

\* z \div 2 for z with the bit c on top of its four digits
Halved(z, c) ==
    <<(z[1] \div 2) + ((z[2] % 2) * (Base \div 2)),
      (z[2] \div 2) + ((z[3] % 2) * (Base \div 2)),
      (z[3] \div 2) + ((z[4] % 2) * (Base \div 2)),
      (z[4] \div 2) + (c * (Base \div 2))>>

\* the float nearest to the exact value, which is z * 2^e when sticky is FALSE
\* and lies between z * 2^e and (z + 1) * 2^e otherwise; z has 55 or 56 bits
Round(z, e, sticky) ==
    IF z[4] < Base \div 2
    THEN Cut(<<(2 * z[1]) % Base,
               ((2 * z[2]) % Base) + (z[1] \div (Base \div 2)),
               ((2 * z[3]) % Base) + (z[2] \div (Base \div 2)),
               ((2 * z[4]) % Base) + (z[3] \div (Base \div 2))>>, e - 1, sticky)
    ELSE Cut(z, e, sticky)

\* the float of a small natural number
FromInt(n) ==
    IF n = 0 THEN Zero
    ELSE [m |-> <<0, 0, 0, n * 2^(14 - BitLen(n))>>, e |-> BitLen(n) - 56]

\* the column sums of the product of two four-digit numbers
Columns(x, y) ==
    <<x[1] * y[1],
      x[1] * y[2] + x[2] * y[1],
      x[1] * y[3] + x[2] * y[2] + x[3] * y[1],
      x[1] * y[4] + x[2] * y[3] + x[3] * y[2] + x[4] * y[1],
      x[2] * y[4] + x[3] * y[3] + x[4] * y[2],
      x[3] * y[4] + x[4] * y[3],
      x[4] * y[4],
      0>>

\* p of eight digits and 111 or 112 bits: its upper half, rounded with its lower
RoundProduct(p, e) ==
    Round(<<p[5], p[6], p[7], p[8]>>, e + 56,
          p[1] # 0 \/ p[2] # 0 \/ p[3] # 0 \/ p[4] # 0)

FMul(a, b) ==
    IF IsZero(a) \/ IsZero(b) THEN Zero
    ELSE RoundProduct(Carry8(Columns(a.m, b.m)).d, a.e + b.e)

\* digit i of y \div 2^k
ShiftedDigit(y, i, k) ==
    (Digit(y, i + (k \div 14)) \div 2^(k % 14))
    + ((Digit(y, i + (k \div 14) + 1) % 2^(k % 14)) * 2^(14 - (k % 14)))

\* y % 2^k # 0
LowBits(y, k) ==
    \/ \E i \in 1..4 : i <= k \div 14 /\ y[i] # 0
    \/ Digit(y, (k \div 14) + 1) % 2^(k % 14) # 0

\* s the digits of the sum and c the bit carried out of them
SumOf(dc, e, sticky) ==
    IF dc.c = 0 THEN Round(dc.d, e, sticky)
    ELSE Round(Halved(dc.d, dc.c), e + 1, sticky \/ dc.d[1] % 2 = 1)

\* a + b where a.e >= b.e: the significand of b is moved down to the exponent
\* of a; the bits of b that fall off only tell the two neighbours apart
AddAligned(a, b, k) ==
    IF k > 56 THEN a
    ELSE SumOf(Carry4(<<a.m[1] + ShiftedDigit(b.m, 1, k), a.m[2] + ShiftedDigit(b.m, 2, k),
                       a.m[3] + ShiftedDigit(b.m, 3, k), a.m[4] + ShiftedDigit(b.m, 4, k)>>),
               a.e, LowBits(b.m, k))

FAdd(a, b) ==
    IF IsZero(a) THEN b
    ELSE IF IsZero(b) THEN a
    ELSE IF a.e >= b.e THEN AddAligned(a, b, a.e - b.e) ELSE AddAligned(b, a, b.e - a.e)

\* r - q * v for r of six digits and v of five; c is negative when q * v is
\* above r
LessProduct(r, v, q) ==
    Carry6(<<r[1] - q * v[1], r[2] - q * v[2], r[3] - q * v[3], r[4] - q * v[4],
             r[5] - q * v[5], r[6]>>)

\* dc + v, dc of either sign
PlusBack(c, back) == [d |-> back.d, c |-> back.c + c]

AddBack(dc, v) ==
    PlusBack(dc.c, Carry6(<<dc.d[1] + v[1], dc.d[2] + v[2], dc.d[3] + v[3], dc.d[4] + v[4],
                            dc.d[5] + v[5], dc.d[6]>>))

\* long division: q was estimated not below the quotient digit; while what it
\* leaves is negative, q goes down by one and v is added back
RECURSIVE QuotientDigit(_, _, _)
QuotientDigit(q, dc, v) ==
    IF dc.c >= 0 THEN [q |-> q, r |-> dc.d] ELSE QuotientDigit(q - 1, AddBack(dc, v), v)

\* the estimate from the two leading digits of r and the leading digit of v
\* (the leading digit of v is at least Base / 2; r < v * Base)
EstimateDigit(r, v) ==
    IF (r[5] * Base + r[4]) \div v[4] > Base - 1 THEN Base - 1
    ELSE (r[5] * Base + r[4]) \div v[4]

\* one step of the long division: r is the remainder so far with the next
\* digit of the dividend brought down
DivideDigit(r, v) == QuotientDigit(EstimateDigit(r, v), LessProduct(r, v, EstimateDigit(r, v)), v)

BringDown(u, qr) == <<u, qr.r[1], qr.r[2], qr.r[3], qr.r[4], 0>>

\* the quotient digits q, most significant first (the leading one 0 or 1), and
\* the remainder r
RoundQuotient(q, r, e) ==
    IF q[1] = 0
    THEN Round(<<q[5], q[4], q[3], q[2]>>, e, r # <<0, 0, 0, 0, 0, 0>>)
    ELSE Round(Halved(<<q[5], q[4], q[3], q[2]>>, 1), e + 1,
               r # <<0, 0, 0, 0, 0, 0>> \/ q[5] % 2 = 1)

\* the long division of u * 2^56 by v, digit by digit from the most
\* significant: five quotient digits and the remainder
LongDivide(u, v, e) ==
    LET s5 == DivideDigit(<<u[1], u[2], u[3], u[4], 0, 0>>, v)
        s4 == DivideDigit(BringDown(0, s5), v)
        s3 == DivideDigit(BringDown(0, s4), v)
        s2 == DivideDigit(BringDown(0, s3), v)
        s1 == DivideDigit(BringDown(0, s2), v)
    IN  RoundQuotient(<<s5.q, s4.q, s3.q, s2.q, s1.q>>, s1.r, e)

\* a / b: the quotient of a.m * 2^56 by b.m with its remainder
FDiv(a, b) ==
    IF IsZero(a) THEN Zero
    ELSE LongDivide(a.m, <<b.m[1], b.m[2], b.m[3], b.m[4], 0>>, a.e - b.e - 56)

\* floor of the square root of n < 2^28, one bit at a time from the top
RECURSIVE SqrtBits(_, _, _)
SqrtBits(n, r, bit) ==
    IF bit = 0 THEN r
    ELSE SqrtBits(n, IF (r + bit) * (r + bit) <= n THEN r + bit ELSE r, bit \div 2)

\* the square root digit by digit: with p the root so far, p2 = 2 * p and r1
\* the remainder with the next two digits brought down, the next digit is the
\* largest x with (p2 * Base + x) * x <= r1.  x was estimated not below it;
\* while what it leaves is negative, x goes down by one and
\* p2 * Base + 2 * x - 1 is added back
RECURSIVE RootDigit(_, _, _)
RootDigit(x, dc, p2) ==
    IF dc.c >= 0 THEN [x |-> x, r |-> dc.d]
    ELSE RootDigit(x - 1, AddBack(dc, <<2 * x - 1, p2[1], p2[2], p2[3], p2[4]>>), p2)

\* the estimate from the leading digits of r1 and the leading digit of p (at
\* least Base / 2)
EstimateRoot(r1, p) ==
    IF (((Digit(r1, Len(p) + 3) * Base + Digit(r1, Len(p) + 2)) * (Base \div 2))
           \div p[Len(p)]) + 1 > Base - 1
    THEN Base - 1
    ELSE (((Digit(r1, Len(p) + 3) * Base + Digit(r1, Len(p) + 2)) * (Base \div 2))
           \div p[Len(p)]) + 1

RootBy(r1, p2, x) == RootDigit(x, LessProduct(r1, <<x, p2[1], p2[2], p2[3], p2[4]>>, x), p2)

\* one step of the square root: p the root so far, r1 what it leaves with the
\* next two digits of n brought down
RootNext(p, r1) == RootBy(r1, Carry4(<<2 * Digit(p, 1), 2 * Digit(p, 2), 2 * Digit(p, 3), 0>>).d,
           EstimateRoot(r1, p))

\* [p, r] with n = p * p + r and r <= 2 * p, for n = (hi * Base + lo) * Base^6 +
\* (n6 * Base + n5) * Base^4 of 111 or 112 bits
BigSqrt(hi, lo, n6, n5, e) ==
    LET x4 == SqrtBits(hi * Base + lo, 0, Base \div 2)
        r4 == hi * Base + lo - x4 * x4
        s3 == RootNext(<<x4>>, <<n5, n6, r4 % Base, r4 \div Base, 0, 0>>)
        s2 == RootNext(<<s3.x, x4>>, <<0, 0, s3.r[1], s3.r[2], s3.r[3], s3.r[4]>>)
        s1 == RootNext(<<s2.x, s3.x, x4>>, <<0, 0, s2.r[1], s2.r[2], s2.r[3], s2.r[4]>>)
    IN  Round(<<s1.x, s2.x, s3.x, x4>>, e, s1.r # <<0, 0, 0, 0, 0, 0>>)

SqrtOf(m, e) == BigSqrt(m[4], m[3], m[2], m[1], e)

\* sqrt(M * 2^e) = sqrt(M * 2^56) * 2^(e / 2 - 28) for even e, and
\* sqrt((M / 2) * 2^56) * 2^((e + 1) / 2 - 28) for odd e
FSqrt(a) ==
    IF IsZero(a) THEN Zero
    ELSE IF a.e % 2 = 0
         THEN SqrtOf(a.m, (a.e \div 2) - 28)
         ELSE SqrtOf(Halved(a.m, 0), ((a.e + 1) \div 2) - 28)

\* a < b on non-negative floats (the representation is normalised)
FLess(a, b) ==
    IF IsZero(b) THEN FALSE
    ELSE IF IsZero(a) THEN TRUE
    ELSE \/ a.e < b.e
         \/ /\ a.e = b.e
            /\ \/ a.m[4] < b.m[4]
               \/ a.m[4] = b.m[4] /\ a.m[3] < b.m[3]
               \/ a.m[4] = b.m[4] /\ a.m[3] = b.m[3] /\ a.m[2] < b.m[2]
               \/ a.m[4] = b.m[4] /\ a.m[3] = b.m[3] /\ a.m[2] = b.m[2] /\ a.m[1] < b.m[1]

FLeq(a, b) == a = b \/ FLess(a, b)

\* np.log(n_samples / df) in float64 for the sample counts that occur here
\* (n_samples of 1 to 16, 56, 57, 59 and 62; df of 1 to n_samples): LogTable[a][b] is
\* the float nearest to ln of the float a / b
LogTable ==
    (1 :> <<
        [m |-> <<0, 0, 0, 0>>, e |-> 0]>>)
    @@
    (2 :> <<
        [m |-> <<3960, 8007, 8575, 11356>>, e |-> -56],
        [m |-> <<0, 0, 0, 0>>, e |-> 0]>>)
    @@
    (3 :> <<
        [m |-> <<6232, 5536, 13629, 8999>>, e |-> -55],
        [m |-> <<608, 6131, 4598, 13286>>, e |-> -57],
        [m |-> <<0, 0, 0, 0>>, e |-> 0]>>)
    @@
    (4 :> <<
        [m |-> <<3960, 8007, 8575, 11356>>, e |-> -55],
        [m |-> <<3960, 8007, 8575, 11356>>, e |-> -56],
        [m |-> <<7304, 9883, 12552, 9426>>, e |-> -57],
        [m |-> <<0, 0, 0, 0>>, e |-> 0]>>)
    @@
    (5 :> <<
        [m |-> <<10648, 15793, 8443, 13184>>, e |-> -55],
        [m |-> <<960, 7196, 8312, 15012>>, e |-> -56],
        [m |-> <<8848, 4130, 6013, 8369>>, e |-> -56],
        [m |-> <<4368, 13139, 15331, 14623>>, e |-> -58],
        [m |-> <<0, 0, 0, 0>>, e |-> 0]>>)
    @@
    (6 :> <<
        [m |-> <<16, 1348, 1533, 14678>>, e |-> -55],
        [m |-> <<6232, 5536, 13629, 8999>>, e |-> -55],
        [m |-> <<3960, 8007, 8575, 11356>>, e |-> -56],
        [m |-> <<608, 6131, 4598, 13286>>, e |-> -57],
        [m |-> <<13224, 15506, 10248, 11948>>, e |-> -58],
        [m |-> <<0, 0, 0, 0>>, e |-> 0]>>)
    @@
    (7 :> <<
        [m |-> <<4792, 1611, 14679, 15940>>, e |-> -55],
        [m |-> <<11008, 5799, 10391, 10262>>, e |-> -55],
        [m |-> <<13520, 8533, 2099, 13882>>, e |-> -56],
        [m |-> <<1664, 3592, 12207, 9168>>, e |-> -56],
        [m |-> <<9336, 8806, 8556, 11025>>, e |-> -57],
        [m |-> <<5464, 2106, 6864, 10102>>, e |-> -58],
        [m |-> <<0, 0, 0, 0>>, e |-> 0]>>)
    @@
    (8 :> <<
        [m |-> <<7064, 10101, 6431, 8517>>, e |-> -54],
        [m |-> <<3960, 8007, 8575, 11356>>, e |-> -55],
        [m |-> <<15808, 12948, 14851, 16069>>, e |-> -56],
        [m |-> <<3960, 8007, 8575, 11356>>, e |-> -56],
        [m |-> <<13944, 1252, 1293, 15401>>, e |-> -57],
        [m |-> <<7304, 9883, 12552, 9426>>, e |-> -57],
        [m |-> <<9168, 1276, 1857, 8751>>, e |-> -58],
        [m |-> <<0, 0, 0, 0>>, e |-> 0]>>)
    @@
    (9 :> <<
        [m |-> <<6232, 5536, 13629, 8999>>, e |-> -54],
        [m |-> <<2288, 15261, 6586, 12321>>, e |-> -55],
        [m |-> <<6232, 5536, 13629, 8999>>, e |-> -55],
        [m |-> <<608, 6131, 4598, 13286>>, e |-> -56],
        [m |-> <<3616, 6942, 4861, 9630>>, e |-> -56],
        [m |-> <<608, 6131, 4598, 13286>>, e |-> -57],
        [m |-> <<14280, 5077, 1166, 8235>>, e |-> -57],
        [m |-> <<5936, 1374, 951, 15438>>, e |-> -59],
        [m |-> <<0, 0, 0, 0>>, e |-> 0]>>)
    @@
    (10 :> <<
        [m |-> <<10416, 13994, 6365, 9431>>, e |-> -54],
        [m |-> <<10648, 15793, 8443, 13184>>, e |-> -55],
        [m |-> <<14600, 6068, 15486, 9862>>, e |-> -55],
        [m |-> <<960, 7196, 8312, 15012>>, e |-> -56],
        [m |-> <<3960, 8007, 8575, 11356>>, e |-> -56],
        [m |-> <<8848, 4130, 6013, 8369>>, e |-> -56],
        [m |-> <<14968, 7207, 8594, 11687>>, e |-> -57],
        [m |-> <<4368, 13139, 15331, 14623>>, e |-> -58],
        [m |-> <<2824, 8520, 13328, 13809>>, e |-> -59],
        [m |-> <<0, 0, 0, 0>>, e |-> 0]>>)
    @@
    (11 :> <<
        [m |-> <<14944, 12262, 12763, 9821>>, e |-> -54],
        [m |-> <<3328, 12330, 4855, 13965>>, e |-> -55],
        [m |-> <<7272, 2605, 11898, 10643>>, e |-> -55],
        [m |-> <<9536, 134, 568, 8287>>, e |-> -55],
        [m |-> <<5704, 1080, 1399, 12918>>, e |-> -56],
        [m |-> <<10576, 13587, 15220, 9930>>, e |-> -56],
        [m |-> <<2048, 9738, 10625, 14810>>, e |-> -57],
        [m |-> <<13840, 907, 1505, 10435>>, e |-> -57],
        [m |-> <<8360, 9320, 2534, 13151>>, e |-> -58],
        [m |-> <<13920, 10120, 8124, 12492>>, e |-> -59],
        [m |-> <<0, 0, 0, 0>>, e |-> 0]>>)
    @@
    (12 :> <<
        [m |-> <<13288, 6771, 2910, 10178>>, e |-> -54],
        [m |-> <<16, 1348, 1533, 14678>>, e |-> -55],
        [m |-> <<3960, 8007, 8575, 11356>>, e |-> -55],
        [m |-> <<6232, 5536, 13629, 8999>>, e |-> -55],
        [m |-> <<15456, 11883, 11137, 14343>>, e |-> -56],
        [m |-> <<3960, 8007, 8575, 11356>>, e |-> -56],
        [m |-> <<10784, 7480, 15051, 8830>>, e |-> -56],
        [m |-> <<608, 6131, 4598, 13286>>, e |-> -57],
        [m |-> <<7304, 9883, 12552, 9426>>, e |-> -57],
        [m |-> <<13224, 15506, 10248, 11948>>, e |-> -58],
        [m |-> <<12552, 4508, 12373, 11404>>, e |-> -59],
        [m |-> <<0, 0, 0, 0>>, e |-> 0]>>)
    @@
    (13 :> <<
        [m |-> <<8840, 9777, 533, 10506>>, e |-> -54],
        [m |-> <<7504, 7359, 13163, 15333>>, e |-> -55],
        [m |-> <<11448, 14018, 3821, 12012>>, e |-> -55],
        [m |-> <<13720, 11547, 8875, 9655>>, e |-> -55],
        [m |-> <<14056, 7522, 1630, 15655>>, e |-> -56],
        [m |-> <<2552, 3646, 15452, 12667>>, e |-> -56],
        [m |-> <<9392, 3119, 5544, 10142>>, e |-> -56],
        [m |-> <<14184, 13792, 1967, 15909>>, e |-> -57],
        [m |-> <<4504, 1161, 9922, 12049>>, e |-> -57],
        [m |-> <<3808, 15415, 2493, 8597>>, e |-> -57],
        [m |-> <<688, 9386, 925, 10948>>, e |-> -58],
        [m |-> <<5104, 14263, 5861, 10491>>, e |-> -59],
        [m |-> <<0, 0, 0, 0>>, e |-> 0]>>)
    @@
    (14 :> <<
        [m |-> <<7480, 6903, 9483, 10809>>, e |-> -54],
        [m |-> <<4792, 1611, 14679, 15940>>, e |-> -55],
        [m |-> <<8744, 8270, 5337, 12619>>, e |-> -55],
        [m |-> <<11008, 5799, 10391, 10262>>, e |-> -55],
        [m |-> <<4312, 14397, 10522, 8434>>, e |-> -55],
        [m |-> <<13520, 8533, 2099, 13882>>, e |-> -56],
        [m |-> <<3960, 8007, 8575, 11356>>, e |-> -56],
        [m |-> <<1664, 3592, 12207, 9168>>, e |-> -56],
        [m |-> <<10040, 10936, 15984, 14477>>, e |-> -57],
        [m |-> <<9336, 8806, 8556, 11025>>, e |-> -57],
        [m |-> <<11736, 12552, 13050, 15804>>, e |-> -58],
        [m |-> <<5464, 2106, 6864, 10102>>, e |-> -58],
        [m |-> <<5728, 6333, 7866, 9713>>, e |-> -59],
        [m |-> <<0, 0, 0, 0>>, e |-> 0]>>)
    @@
    (15 :> <<
        [m |-> <<248, 10665, 2844, 11092>>, e |-> -54],
        [m |-> <<3352, 12759, 700, 8253>>, e |-> -54],
        [m |-> <<10648, 15793, 8443, 13184>>, e |-> -55],
        [m |-> <<12920, 13322, 13497, 10827>>, e |-> -55],
        [m |-> <<6232, 5536, 13629, 8999>>, e |-> -55],
        [m |-> <<960, 7196, 8312, 15012>>, e |-> -56],
        [m |-> <<7784, 6669, 14788, 12486>>, e |-> -56],
        [m |-> <<5488, 2254, 2036, 10299>>, e |-> -56],
        [m |-> <<8848, 4130, 6013, 8369>>, e |-> -56],
        [m |-> <<608, 6131, 4598, 13286>>, e |-> -57],
        [m |-> <<13512, 3600, 2567, 10163>>, e |-> -57],
        [m |-> <<4368, 13139, 15331, 14623>>, e |-> -58],
        [m |-> <<9960, 14199, 4208, 9378>>, e |-> -58],
        [m |-> <<14200, 5681, 551, 9043>>, e |-> -59],
        [m |-> <<0, 0, 0, 0>>, e |-> 0]>>)
    @@
    (16 :> <<
        [m |-> <<3960, 8007, 8575, 11356>>, e |-> -54],
        [m |-> <<7064, 10101, 6431, 8517>>, e |-> -54],
        [m |-> <<1696, 10478, 3521, 13713>>, e |-> -55],
        [m |-> <<3960, 8007, 8575, 11356>>, e |-> -55],
        [m |-> <<13656, 220, 8707, 9528>>, e |-> -55],
        [m |-> <<15808, 12948, 14851, 16069>>, e |-> -56],
        [m |-> <<6256, 12422, 4943, 13544>>, e |-> -56],
        [m |-> <<3960, 8007, 8575, 11356>>, e |-> -56],
        [m |-> <<7312, 9883, 12552, 9426>>, e |-> -56],
        [m |-> <<13944, 1252, 1293, 15401>>, e |-> -57],
        [m |-> <<10464, 15106, 15645, 12277>>, e |-> -57],
        [m |-> <<7304, 9883, 12552, 9426>>, e |-> -57],
        [m |-> <<3880, 4443, 13982, 13607>>, e |-> -58],
        [m |-> <<9168, 1276, 1857, 8751>>, e |-> -58],
        [m |-> <<4144, 13255, 3162, 8459>>, e |-> -59],
        [m |-> <<0, 0, 0, 0>>, e |-> 0]>>)
    @@
    (56 :> <<
        [m |-> <<8832, 9549, 15077, 8243>>, e |-> -53],
        [m |-> <<4376, 4809, 11627, 13648>>, e |-> -54],
        [m |-> <<14544, 8138, 15148, 11987>>, e |-> -54],
        [m |-> <<7480, 6903, 9483, 10809>>, e |-> -54],
        [m |-> <<4136, 3010, 9549, 9895>>, e |-> -54],
        [m |-> <<1264, 10233, 13004, 9148>>, e |-> -54],
        [m |-> <<7064, 10101, 6431, 8517>>, e |-> -54],
        [m |-> <<4792, 1611, 14679, 15940>>, e |-> -55],
        [m |-> <<6472, 10741, 283, 14976>>, e |-> -55],
        [m |-> <<14488, 10208, 14810, 14112>>, e |-> -55],
        [m |-> <<5432, 13672, 2014, 13332>>, e |-> -55],
        [m |-> <<8744, 8270, 5337, 12619>>, e |-> -55],
        [m |-> <<1248, 2259, 10091, 11963>>, e |-> -55],
        [m |-> <<3960, 8007, 8575, 11356>>, e |-> -55],
        [m |-> <<2048, 484, 5469, 10791>>, e |-> -55],
        [m |-> <<11008, 5799, 10391, 10262>>, e |-> -55],
        [m |-> <<4688, 5782, 16340, 9765>>, e |-> -55],
        [m |-> <<12680, 14929, 12379, 9297>>, e |-> -55],
        [m |-> <<5928, 5129, 13712, 8854>>, e |-> -55],
        [m |-> <<4312, 14397, 10522, 8434>>, e |-> -55],
        [m |-> <<15808, 12948, 14851, 16069>>, e |-> -56],
        [m |-> <<6896, 2953, 11838, 15307>>, e |-> -56],
        [m |-> <<5608, 402, 6961, 14579>>, e |-> -56],
        [m |-> <<13520, 8533, 2099, 13882>>, e |-> -56],
        [m |-> <<11640, 13221, 4924, 13213>>, e |-> -56],
        [m |-> <<14920, 12894, 11606, 12570>>, e |-> -56],
        [m |-> <<480, 10410, 6076, 11952>>, e |-> -56],
        [m |-> <<3960, 8007, 8575, 11356>>, e |-> -56],
        [m |-> <<4112, 877, 9621, 10781>>, e |-> -56],
        [m |-> <<136, 9345, 2362, 10226>>, e |-> -56],
        [m |-> <<10400, 8662, 15003, 9688>>, e |-> -56],
        [m |-> <<1664, 3592, 12207, 9168>>, e |-> -56],
        [m |-> <<14784, 16271, 9538, 8664>>, e |-> -56],
        [m |-> <<10840, 7114, 15442, 16350>>, e |-> -57],
        [m |-> <<13944, 1252, 1293, 15401>>, e |-> -57],
        [m |-> <<10040, 10936, 15984, 14477>>, e |-> -57],
        [m |-> <<14464, 6672, 2720, 13580>>, e |-> -57],
        [m |-> <<15792, 4502, 4930, 12706>>, e |-> -57],
        [m |-> <<12848, 3274, 2231, 11855>>, e |-> -57],
        [m |-> <<9336, 8806, 8556, 11025>>, e |-> -57],
        [m |-> <<5224, 1580, 6467, 10216>>, e |-> -57],
        [m |-> <<7304, 9883, 12552, 9426>>, e |-> -57],
        [m |-> <<9096, 16364, 11776, 8655>>, e |-> -57],
        [m |-> <<11736, 12552, 13050, 15804>>, e |-> -58],
        [m |-> <<15720, 8733, 253, 14332>>, e |-> -58],
        [m |-> <<6576, 2348, 9926, 12891>>, e |-> -58],
        [m |-> <<13392, 1999, 2870, 11482>>, e |-> -58],
        [m |-> <<5464, 2106, 6864, 10102>>, e |-> -58],
        [m |-> <<9168, 1276, 1857, 8751>>, e |-> -58],
        [m |-> <<12304, 8947, 3562, 14854>>, e |-> -59],
        [m |-> <<8232, 3934, 10608, 12258>>, e |-> -59],
        [m |-> <<5728, 6333, 7866, 9713>>, e |-> -59],
        [m |-> <<10416, 5343, 9670, 14433>>, e |-> -60],
        [m |-> <<9856, 5676, 9170, 9533>>, e |-> -60],
        [m |-> <<9640, 11691, 14519, 9446>>, e |-> -61],
        [m |-> <<0, 0, 0, 0>>, e |-> 0]>>)
    @@
    (57 :> <<
        [m |-> <<4808, 13747, 2768, 8280>>, e |-> -53],
        [m |-> <<12720, 13204, 3393, 13721>>, e |-> -54],
        [m |-> <<6496, 150, 6915, 12060>>, e |-> -54],
        [m |-> <<15824, 15298, 1249, 10882>>, e |-> -54],
        [m |-> <<12480, 11405, 1315, 9968>>, e |-> -54],
        [m |-> <<9608, 2244, 4771, 9221>>, e |-> -54],
        [m |-> <<15408, 2112, 14582, 8589>>, e |-> -54],
        [m |-> <<5096, 2018, 14596, 16085>>, e |-> -55],
        [m |-> <<6768, 11148, 200, 15121>>, e |-> -55],
        [m |-> <<14792, 10615, 14727, 14257>>, e |-> -55],
        [m |-> <<5728, 14079, 1931, 13477>>, e |-> -55],
        [m |-> <<9040, 8677, 5254, 12764>>, e |-> -55],
        [m |-> <<1552, 2666, 10008, 12108>>, e |-> -55],
        [m |-> <<4256, 8414, 8492, 11501>>, e |-> -55],
        [m |-> <<2344, 891, 5386, 10936>>, e |-> -55],
        [m |-> <<11304, 6206, 10308, 10407>>, e |-> -55],
        [m |-> <<4992, 6189, 16257, 9910>>, e |-> -55],
        [m |-> <<12976, 15336, 12296, 9442>>, e |-> -55],
        [m |-> <<6232, 5536, 13629, 8999>>, e |-> -55],
        [m |-> <<4616, 14804, 10439, 8579>>, e |-> -55],
        [m |-> <<32, 13763, 14685, 16359>>, e |-> -56],
        [m |-> <<7496, 3767, 11672, 15597>>, e |-> -56],
        [m |-> <<6192, 1216, 6795, 14869>>, e |-> -56],
        [m |-> <<14112, 9347, 1933, 14172>>, e |-> -56],
        [m |-> <<12232, 14035, 4758, 13503>>, e |-> -56],
        [m |-> <<15528, 13708, 11440, 12860>>, e |-> -56],
        [m |-> <<1088, 11224, 5910, 12242>>, e |-> -56],
        [m |-> <<4552, 8821, 8409, 11646>>, e |-> -56],
        [m |-> <<4704, 1691, 9455, 11071>>, e |-> -56],
        [m |-> <<728, 10159, 2196, 10516>>, e |-> -56],
        [m |-> <<11000, 9476, 14837, 9978>>, e |-> -56],
        [m |-> <<2264, 4406, 12041, 9458>>, e |-> -56],
        [m |-> <<15384, 701, 9373, 8954>>, e |-> -56],
        [m |-> <<6024, 4371, 7555, 8465>>, e |-> -56],
        [m |-> <<15128, 2880, 961, 15981>>, e |-> -57],
        [m |-> <<11232, 12564, 15652, 15057>>, e |-> -57],
        [m |-> <<15656, 8300, 2388, 14160>>, e |-> -57],
        [m |-> <<608, 6131, 4598, 13286>>, e |-> -57],
        [m |-> <<14040, 4902, 1899, 12435>>, e |-> -57],
        [m |-> <<10544, 10434, 8224, 11605>>, e |-> -57],
        [m |-> <<6392, 3208, 6135, 10796>>, e |-> -57],
        [m |-> <<8520, 11511, 12220, 10006>>, e |-> -57],
        [m |-> <<10272, 1608, 11445, 9235>>, e |-> -57],
        [m |-> <<7064, 7904, 6193, 8482>>, e |-> -57],
        [m |-> <<1704, 11990, 15973, 15491>>, e |-> -58],
        [m |-> <<8936, 5604, 9262, 14051>>, e |-> -58],
        [m |-> <<15816, 5255, 2206, 12642>>, e |-> -58],
        [m |-> <<7840, 5362, 6200, 11262>>, e |-> -58],
        [m |-> <<11560, 4532, 1193, 9911>>, e |-> -58],
        [m |-> <<296, 7730, 1117, 8587>>, e |-> -58],
        [m |-> <<12976, 10446, 9280, 14578>>, e |-> -59],
        [m |-> <<10584, 12845, 6538, 12033>>, e |-> -59],
        [m |-> <<1792, 9184, 11699, 9536>>, e |-> -59],
        [m |-> <<3128, 2317, 6515, 14173>>, e |-> -60],
        [m |-> <<6320, 10678, 4604, 9363>>, e |-> -60],
        [m |-> <<2592, 9665, 11073, 9279>>, e |-> -61],
        [m |-> <<0, 0, 0, 0>>, e |-> 0]>>)
    @@
    (59 :> <<
        [m |-> <<3016, 14565, 13052, 8350>>, e |-> -53],
        [m |-> <<9136, 14840, 7577, 13862>>, e |-> -54],
        [m |-> <<2912, 1786, 11099, 12201>>, e |-> -54],
        [m |-> <<12240, 550, 5434, 11023>>, e |-> -54],
        [m |-> <<8896, 13041, 5499, 10109>>, e |-> -54],
        [m |-> <<6016, 3880, 8955, 9362>>, e |-> -54],
        [m |-> <<11824, 3748, 2382, 8731>>, e |-> -54],
        [m |-> <<14304, 5289, 6580, 16368>>, e |-> -55],
        [m |-> <<15984, 14419, 8568, 15403>>, e |-> -55],
        [m |-> <<7616, 13887, 6711, 14540>>, e |-> -55],
        [m |-> <<14936, 966, 10300, 13759>>, e |-> -55],
        [m |-> <<1864, 11949, 13622, 13046>>, e |-> -55],
        [m |-> <<10760, 5937, 1992, 12391>>, e |-> -55],
        [m |-> <<13472, 11685, 476, 11784>>, e |-> -55],
        [m |-> <<11560, 4162, 13754, 11218>>, e |-> -55],
        [m |-> <<4128, 9478, 2292, 10690>>, e |-> -55],
        [m |-> <<14200, 9460, 8241, 10193>>, e |-> -55],
        [m |-> <<5808, 2224, 4281, 9725>>, e |-> -55],
        [m |-> <<15440, 8807, 5613, 9282>>, e |-> -55],
        [m |-> <<13824, 1691, 2424, 8862>>, e |-> -55],
        [m |-> <<1032, 1961, 7519, 8462>>, e |-> -55],
        [m |-> <<9528, 10310, 12024, 16162>>, e |-> -56],
        [m |-> <<8232, 7759, 7147, 15434>>, e |-> -56],
        [m |-> <<16152, 15890, 2285, 14737>>, e |-> -56],
        [m |-> <<14272, 4194, 5111, 14068>>, e |-> -56],
        [m |-> <<1168, 3868, 11793, 13425>>, e |-> -56],
        [m |-> <<3120, 1383, 6263, 12807>>, e |-> -56],
        [m |-> <<6600, 15364, 8761, 12211>>, e |-> -56],
        [m |-> <<6736, 8234, 9807, 11636>>, e |-> -56],
        [m |-> <<2768, 318, 2549, 11081>>, e |-> -56],
        [m |-> <<13040, 16019, 15189, 10543>>, e |-> -56],
        [m |-> <<4304, 10949, 12393, 10023>>, e |-> -56],
        [m |-> <<1032, 7245, 9725, 9519>>, e |-> -56],
        [m |-> <<8064, 10914, 7907, 9030>>, e |-> -56],
        [m |-> <<9600, 16175, 9024, 8555>>, e |-> -56],
        [m |-> <<15304, 9266, 16357, 16187>>, e |-> -57],
        [m |-> <<3336, 5003, 3093, 15290>>, e |-> -57],
        [m |-> <<4680, 2833, 5303, 14416>>, e |-> -57],
        [m |-> <<1736, 1605, 2604, 13565>>, e |-> -57],
        [m |-> <<14624, 7136, 8929, 12735>>, e |-> -57],
        [m |-> <<10472, 16294, 6839, 11926>>, e |-> -57],
        [m |-> <<12576, 8213, 12925, 11136>>, e |-> -57],
        [m |-> <<14360, 14694, 12149, 10365>>, e |-> -57],
        [m |-> <<11136, 4606, 6898, 9612>>, e |-> -57],
        [m |-> <<4936, 10889, 499, 8876>>, e |-> -57],
        [m |-> <<696, 15393, 10671, 16311>>, e |-> -58],
        [m |-> <<7544, 15044, 3615, 14902>>, e |-> -58],
        [m |-> <<16008, 15150, 7609, 13522>>, e |-> -58],
        [m |-> <<3344, 14321, 2602, 12171>>, e |-> -58],
        [m |-> <<8456, 1134, 2527, 10847>>, e |-> -58],
        [m |-> <<14664, 15011, 6049, 9549>>, e |-> -58],
        [m |-> <<5216, 16211, 12870, 8276>>, e |-> -58],
        [m |-> <<1704, 12377, 14518, 14056>>, e |-> -59],
        [m |-> <<9640, 12543, 14268, 11606>>, e |-> -59],
        [m |-> <<3088, 8532, 13313, 9201>>, e |-> -59],
        [m |-> <<9432, 3026, 2983, 13680>>, e |-> -60],
        [m |-> <<16344, 6385, 5638, 9040>>, e |-> -60],
        [m |-> <<6880, 7269, 6656, 8962>>, e |-> -61],
        [m |-> <<0, 0, 0, 0>>, e |-> 0]>>)
    @@
    (62 :> <<
        [m |-> <<10072, 1275, 6082, 8452>>, e |-> -53],
        [m |-> <<6864, 4645, 10020, 14065>>, e |-> -54],
        [m |-> <<648, 7975, 13541, 12404>>, e |-> -54],
        [m |-> <<9968, 6739, 7876, 11226>>, e |-> -54],
        [m |-> <<6624, 2846, 7942, 10312>>, e |-> -54],
        [m |-> <<3752, 10069, 11397, 9565>>, e |-> -54],
        [m |-> <<9552, 9937, 4824, 8934>>, e |-> -54],
        [m |-> <<13072, 8833, 5732, 8387>>, e |-> -54],
        [m |-> <<11448, 10413, 13453, 15809>>, e |-> -55],
        [m |-> <<3080, 9881, 11596, 14946>>, e |-> -55],
        [m |-> <<10400, 13344, 15184, 14165>>, e |-> -55],
        [m |-> <<13712, 7942, 2123, 13453>>, e |-> -55],
        [m |-> <<6216, 1931, 6877, 12797>>, e |-> -55],
        [m |-> <<8936, 7679, 5361, 12190>>, e |-> -55],
        [m |-> <<7024, 156, 2255, 11625>>, e |-> -55],
        [m |-> <<15976, 5471, 7177, 11096>>, e |-> -55],
        [m |-> <<9664, 5454, 13126, 10599>>, e |-> -55],
        [m |-> <<1272, 14602, 9165, 10131>>, e |-> -55],
        [m |-> <<10904, 4801, 10498, 9688>>, e |-> -55],
        [m |-> <<9288, 14069, 7308, 9268>>, e |-> -55],
        [m |-> <<12880, 14338, 12403, 8868>>, e |-> -55],
        [m |-> <<232, 1149, 10897, 8487>>, e |-> -55],
        [m |-> <<15544, 16130, 532, 16247>>, e |-> -56],
        [m |-> <<7080, 7878, 12055, 15549>>, e |-> -56],
        [m |-> <<5192, 12566, 14880, 14880>>, e |-> -56],
        [m |-> <<8480, 12239, 5178, 14238>>, e |-> -56],
        [m |-> <<10424, 9754, 16032, 13619>>, e |-> -56],
        [m |-> <<13904, 7351, 2147, 13024>>, e |-> -56],
        [m |-> <<14040, 221, 3193, 12449>>, e |-> -56],
        [m |-> <<10088, 8689, 12318, 11893>>, e |-> -56],
        [m |-> <<3960, 8007, 8575, 11356>>, e |-> -56],
        [m |-> <<11608, 2936, 5779, 10836>>, e |-> -56],
        [m |-> <<8344, 15616, 3110, 10332>>, e |-> -56],
        [m |-> <<15360, 2901, 1293, 9843>>, e |-> -56],
        [m |-> <<520, 8163, 2410, 9368>>, e |-> -56],
        [m |-> <<14968, 4812, 9756, 8906>>, e |-> -56],
        [m |-> <<784, 2681, 11316, 8457>>, e |-> -56],
        [m |-> <<2912, 3192, 8458, 16041>>, e |-> -57],
        [m |-> <<16344, 1963, 5759, 15190>>, e |-> -57],
        [m |-> <<12848, 7495, 12084, 14360>>, e |-> -57],
        [m |-> <<8712, 269, 9995, 13551>>, e |-> -57],
        [m |-> <<10824, 8572, 16080, 12761>>, e |-> -57],
        [m |-> <<12576, 15053, 15304, 11990>>, e |-> -57],
        [m |-> <<9376, 4965, 10053, 11237>>, e |-> -57],
        [m |-> <<3160, 11248, 3654, 10501>>, e |-> -57],
        [m |-> <<6776, 16247, 298, 9781>>, e |-> -57],
        [m |-> <<2000, 16073, 4962, 9076>>, e |-> -57],
        [m |-> <<6232, 16126, 6959, 8386>>, e |-> -57],
        [m |-> <<16200, 15038, 8912, 15421>>, e |-> -58],
        [m |-> <<4928, 1852, 8837, 14097>>, e |-> -58],
        [m |-> <<11064, 15729, 12359, 12799>>, e |-> -58],
        [m |-> <<1680, 545, 2797, 11527>>, e |-> -58],
        [m |-> <<5496, 6906, 13569, 10278>>, e |-> -58],
        [m |-> <<9480, 6989, 13444, 9053>>, e |-> -58],
        [m |-> <<12336, 9967, 9549, 15702>>, e |-> -59],
        [m |-> <<14032, 11140, 14111, 13340>>, e |-> -59],
        [m |-> <<9240, 4628, 15439, 11020>>, e |-> -59],
        [m |-> <<15112, 3252, 6092, 8741>>, e |-> -59],
        [m |-> <<2304, 2871, 8856, 13001>>, e |-> -60],
        [m |-> <<16056, 10917, 10736, 8595>>, e |-> -60],
        [m |-> <<12312, 11803, 3210, 8525>>, e |-> -61],
        [m |-> <<0, 0, 0, 0>>, e |-> 0]>>)

\* ------------------------------------------------------------------- text
\* str.lower() on the words that carry an upper-case letter
LowerTable ==
    ("2D" :> "2d") @@ ("3D" :> "3d") @@ ("AI" :> "ai") @@ ("Aim" :> "aim") @@
    ("Animator" :> "animator") @@ ("Apply" :> "apply") @@
    ("AudioManager" :> "audiomanager") @@ ("AudioMixer" :> "audiomixer") @@
    ("AudioSource" :> "audiosource") @@ ("Canvas" :> "canvas") @@
    ("Character" :> "character") @@ ("Checkpoint" :> "checkpoint") @@
    ("Collectibles" :> "collectibles") @@ ("Combat" :> "combat") @@
    ("Cover" :> "cover") @@ ("Create" :> "create") @@ ("Dash" :> "dash") @@
    ("Detail" :> "detail") @@ ("Dialogue" :> "dialogue") @@
    ("Double" :> "double") @@ ("Enemy" :> "enemy") @@
    ("Environmental" :> "environmental") @@ ("Follow" :> "follow") @@
    ("GameManager" :> "gamemanager") @@ ("GetAxis" :> "getaxis") @@
    ("Health" :> "health") @@ ("Implement" :> "implement") @@
    ("Input" :> "input") @@ ("Inventory" :> "inventory") @@
    ("Jump" :> "jump") @@ ("LOD" :> "lod") @@ ("Level" :> "level") @@
    ("Logic" :> "logic") @@ ("Manager" :> "manager") @@
    ("Metroidvania" :> "metroidvania") @@ ("Procedural" :> "procedural") @@
    ("Roguelike" :> "roguelike") @@
    ("Minimize" :> "minimize") @@ ("OnClick" :> "onclick") @@
    ("Optimize" :> "optimize") @@ ("Pattern" :> "pattern") @@
    ("Physics" :> "physics") @@ ("PlayerPrefs" :> "playerprefs") @@
    ("Provide" :> "provide") @@ ("Puzzle" :> "puzzle") @@
    ("Quest" :> "quest") @@ ("RPG" :> "rpg") @@
    ("Rigidbody" :> "rigidbody") @@ ("SceneManager" :> "scenemanager") @@
    ("ScriptableObjects" :> "scriptableobjects") @@
    ("Separate" :> "separate") @@ ("Suggest" :> "suggest") @@
    ("Text" :> "text") @@ ("Time" :> "time") @@
    ("Transform" :> "transform") @@ ("Translate" :> "translate") @@
    ("UI" :> "ui") @@ ("Unity" :> "unity") @@ ("Use" :> "use") @@
    ("Wall" :> "wall") @@ ("Weapon" :> "weapon")

\* the words of sklearn's ENGLISH_STOP_WORDS that occur in these texts
StopWords ==
    {"a", "across", "and", "detail", "for", "of", "off", "or", "system",
    "the", "through", "to", "with"}

\* every term of these texts, in the order sorted() gives (the vocabulary is sorted)
TermOrder ==
    <<"3d", "ability", "accessibility", "actions", "add", "adding", "ai",
    "aim", "allows", "animations", "animator", "apply", "armor", "async",
    "attack", "audio", "audiomanager", "audiomixer", "audiosource",
    "based", "behavior", "best", "blocking", "button", "camera", "canvas",
    "centralized", "challenge", "challenges", "changes", "character",
    "checking", "checkpoint", "clear", "code", "collectibles",
    "collection", "combat", "component", "components", "concerns",
    "consistent", "control", "controller", "conventions", "coroutines",
    "coupling", "cover", "create", "created", "creates", "culling",
    "curiosity", "dash", "data", "design", "dialogue", "different",
    "direct", "displaying", "double", "driven", "effects", "elements",
    "enables", "encourage", "enemy", "environmental", "equipment", "event",
    "events", "experience", "exploration", "fantasy", "feedback",
    "flexible", "follow", "forces", "frequently", "frustration", "game",
    "gamemanager", "gameplay", "garbage", "generation", "getaxis",
    "global", "ground", "health", "higher", "horizontal", "implement",
    "infinite", "information", "inheritance", "input", "interaction",
    "interactions", "interfaces", "intuitive", "inventory", "items",
    "jump", "jumping", "keyboard", "layout", "level", "lod", "logic",
    "loose", "maintains", "management", "manager", "managing", "mapping",
    "mechanics", "memory", "metroidvania", "minimize", "mouse", "movement",
    "naming", "navigation", "non", "object", "objectives", "objects",
    "onclick", "operations", "optimization", "optimize", "options",
    "pattern", "patterns", "performance", "physics", "platformer",
    "platforms", "playback", "player", "playerprefs", "players", "points",
    "pooling", "pools", "position", "practices", "problem", "procedural",
    "progress", "progression", "proper", "provide", "provides", "puzzles",
    "quest", "quick", "raycasts", "reach", "recognition", "reduces",
    "replayability", "requiring", "rewards", "rigidbody", "roguelike",
    "rpg", "saving", "scaling", "scene", "scenemanager", "screen",
    "script", "scriptableobjects", "separate", "shoot", "similar",
    "singleton", "situations", "skills", "smooth", "solving", "sound",
    "spatial", "state", "storytelling", "structured", "style", "suggest",
    "survival", "switching", "systems", "tactical", "text", "time",
    "transform", "transitions", "translate", "types", "ui", "unity",
    "urgency", "use", "using", "variety", "vertical", "visual", "volume",
    "wall", "weapon", "world">>

\* build_analyzer(): lower-case, tokenize (the token pattern r"(?u)\b\w\w+\b"
\* matches words of two or more characters), drop the stop words
Analyze(text) ==
    SelectSeq([i \in 1..Len(text) |->
                  IF text[i] \in DOMAIN LowerTable THEN LowerTable[text[i]] ELSE text[i]],
              LAMBDA w : Len(w) >= 2 /\ w \notin StopWords)

Count(seq, x) == Cardinality({i \in 1..Len(seq) : seq[i] = x})

\* --------------------------------------------------------- knowledge base
\* KbExtend with a defect: items already stored under the subcategory are merged
RECURSIVE AppendNew(_, _)
AppendNew(items, content) ==
    IF content = <<>> THEN items
    ELSE AppendNew(IF \E i \in 1..Len(items) : items[i] = Head(content)
                   THEN items ELSE Append(items, Head(content)),
                   Tail(content))

KbExtendMerging(kb, category, subcategory, content) ==
    LET kb1  == IF ~DictHas(kb, category) THEN DictSet(kb, category, <<>>) ELSE kb
        sub  == DictGet(kb1, category)
        sub1 == IF ~DictHas(sub, subcategory) THEN DictSet(sub, subcategory, <<>>) ELSE sub
        sub2 == DictSet(sub1, subcategory, AppendNew(DictGet(sub1, subcategory), content))
    IN  DictSet(kb1, category, sub2)

\* KbExtend with a defect: the new items go in front of the stored ones
KbExtendPrepending(kb, category, subcategory, content) ==
    LET kb1  == IF ~DictHas(kb, category) THEN DictSet(kb, category, <<>>) ELSE kb
        sub  == DictGet(kb1, category)
        sub1 == IF ~DictHas(sub, subcategory) THEN DictSet(sub, subcategory, <<>>) ELSE sub
        sub2 == DictSet(sub1, subcategory, content \o DictGet(sub1, subcategory))
    IN  DictSet(kb1, category, sub2)

\* lines 268-274: setdefault of the category and the subcategory, then extend
KbExtend(kb, category, subcategory, content) ==
    LET kb1  == IF ~DictHas(kb, category) THEN DictSet(kb, category, <<>>) ELSE kb
        sub  == DictGet(kb1, category)
        sub1 == IF ~DictHas(sub, subcategory) THEN DictSet(sub, subcategory, <<>>) ELSE sub
        sub2 == DictSet(sub1, subcategory, DictGet(sub1, subcategory) \o content)
    IN  DictSet(kb1, category, sub2)

\* _create_default_knowledge_base (lines 57-141), each content string as its words
DefaultKnowledgeBase ==
    <<
      [k |-> "game_design", v |-> <<
        [k |-> "platformer_mechanics", v |-> <<
            <<"Double", "jump", "allows", "players", "to", "reach", "higher", "platforms">>,
            <<"Wall", "jumping", "enables", "vertical", "movement", "and", "exploration">>,
            <<"Dash", "ability", "provides", "quick", "horizontal", "movement">>,
            <<"Collectibles", "encourage", "exploration", "and", "replayability">>,
            <<"Checkpoint", "system", "reduces", "frustration", "and", "maintains", "progress">>>>],
        [k |-> "rpg_elements", v |-> <<
            <<"Character", "progression", "through", "experience", "points">>,
            <<"Inventory", "system", "for", "managing", "items", "and", "equipment">>,
            <<"Quest", "system", "for", "structured", "gameplay", "objectives">>,
            <<"Dialogue", "system", "for", "storytelling", "and", "character", "interaction">>,
            <<"Combat", "mechanics", "with", "different", "attack", "types">>>>],
        [k |-> "shooter_mechanics", v |-> <<
            <<"Aim", "and", "shoot", "mechanics", "with", "mouse", "keyboard", "or", "controller">>,
            <<"Weapon", "switching", "for", "different", "combat", "situations">>,
            <<"Health", "and", "armor", "systems", "for", "player", "survival">>,
            <<"Enemy", "AI", "with", "different", "behavior", "patterns">>,
            <<"Cover", "system", "for", "tactical", "gameplay">>>>],
        [k |-> "puzzle_elements", v |-> <<
            <<"Logic", "puzzles", "requiring", "problem", "solving", "skills">>,
            <<"Physics", "based", "puzzles", "using", "game", "world", "interactions">>,
            <<"Pattern", "recognition", "challenges">>,
            <<"Environmental", "puzzles", "using", "level", "elements">>,
            <<"Time", "based", "puzzles", "adding", "urgency">>>>]>>],
      [k |-> "unity_specific", v |-> <<
        [k |-> "player_controller", v |-> <<
            <<"Use", "Input", "GetAxis", "for", "smooth", "movement">>,
            <<"Apply", "forces", "to", "Rigidbody", "for", "physics", "based", "movement">>,
            <<"Use", "Transform", "Translate", "for", "direct", "position", "changes">>,
            <<"Implement", "ground", "checking", "with", "raycasts">>,
            <<"Use", "Animator", "for", "smooth", "animations">>>>],
        [k |-> "game_management", v |-> <<
            <<"Use", "GameManager", "singleton", "for", "global", "game", "state">>,
            <<"Implement", "scene", "management", "with", "SceneManager">>,
            <<"Use", "PlayerPrefs", "for", "saving", "game", "data">>,
            <<"Create", "event", "system", "for", "loose", "coupling">>,
            <<"Use", "coroutines", "for", "time", "based", "actions">>>>],
        [k |-> "ui_systems", v |-> <<
            <<"Use", "Canvas", "for", "UI", "layout", "and", "scaling">>,
            <<"Implement", "UI", "Manager", "for", "centralized", "UI", "control">>,
            <<"Use", "Text", "components", "for", "displaying", "information">>,
            <<"Create", "button", "interactions", "with", "OnClick", "events">>,
            <<"Use", "UI", "animations", "for", "smooth", "transitions">>>>],
        [k |-> "audio_systems", v |-> <<
            <<"Use", "AudioSource", "component", "for", "sound", "playback">>,
            <<"Implement", "AudioManager", "for", "centralized", "audio", "control">>,
            <<"Use", "AudioMixer", "for", "volume", "and", "effects", "management">>,
            <<"Create", "sound", "pools", "for", "performance", "optimization">>,
            <<"Use", "3D", "audio", "for", "spatial", "sound", "effects">>>>]>>],
      [k |-> "best_practices", v |-> <<
        [k |-> "code_organization", v |-> <<
            <<"Separate", "concerns", "with", "different", "script", "components">>,
            <<"Use", "inheritance", "for", "similar", "game", "objects">>,
            <<"Implement", "interfaces", "for", "flexible", "design">>,
            <<"Use", "ScriptableObjects", "for", "data", "driven", "design">>,
            <<"Follow", "Unity", "naming", "conventions">>>>],
        [k |-> "performance", v |-> <<
            <<"Use", "object", "pooling", "for", "frequently", "created", "objects">>,
            <<"Optimize", "with", "LOD", "Level", "of", "Detail", "systems">>,
            <<"Use", "culling", "for", "off", "screen", "objects">>,
            <<"Minimize", "garbage", "collection", "with", "proper", "memory", "management">>,
            <<"Use", "async", "operations", "for", "non", "blocking", "code">>>>],
        [k |-> "user_experience", v |-> <<
            <<"Provide", "clear", "visual", "feedback", "for", "player", "actions">>,
            <<"Implement", "smooth", "camera", "movement", "and", "transitions">>,
            <<"Use", "consistent", "input", "mapping", "across", "the", "game">>,
            <<"Provide", "accessibility", "options", "for", "different", "players">>,
            <<"Create", "intuitive", "UI", "with", "clear", "navigation">>>>]>>]>>

CategoryCount(subcategories) ==
    SumSeq([j \in 1..Len(subcategories) |-> Len(subcategories[j].v)])

\* ------------------------------------------------------------------- JSON
\* json.dump writes the nested mapping as a token stream; json.load parses it
Tok(t, v) == [t |-> t, v |-> v]

DumpList(items) ==
    <<Tok("[", <<>>)>> \o [i \in 1..Len(items) |-> Tok("str", items[i])]
        \o <<Tok("]", <<>>)>>

DumpSubcategories(sub) ==
    <<Tok("{", <<>>)>>
        \o Concat([j \in 1..Len(sub) |-> <<Tok("key", <<sub[j].k>>)>> \o DumpList(sub[j].v)])
        \o <<Tok("}", <<>>)>>

json_dump(kb) ==
    <<Tok("{", <<>>)>>
        \o Concat([i \in 1..Len(kb) |->
                     <<Tok("key", <<kb[i].k>>)>> \o DumpSubcategories(kb[i].v)])
        \o <<Tok("}", <<>>)>>

\* the text json.dump(.., indent=2, ensure_ascii=False) writes, counted in
\* bytes.  A string is its words, one character apart, between quotes; the one
\* default snippet with more is 'Optimize with LOD (Level of Detail) systems'
StrBytes(words) ==
    2 + SumSeq([i \in 1..Len(words) |-> Len(words[i])])
      + (IF words = <<>> THEN 0 ELSE Len(words) - 1)
      + (IF words = <<"Optimize", "with", "LOD", "Level", "of", "Detail", "systems">>
         THEN 2 ELSE 0)

\* the bytes of the token at pos with what json.dump writes in front of it (a
\* comma after an earlier item, the line break and two spaces per container
\* open at pos, their number being depth) and behind it (": " after a key); an empty container is written
\* "{}" or "[]"; "rest" is what an earlier, longer text has left behind
TokBytes(toks, pos) ==
    LET first == pos > 1 /\ toks[pos - 1].t \in {"{", "["}
        depth == Cardinality({k \in 1..(pos - 1) : toks[k].t \in {"{", "["}})
                    - Cardinality({k \in 1..(pos - 1) : toks[k].t \in {"}", "]"}})
        item  == (IF first THEN 0 ELSE 1) + 1 + 2 * depth
    IN  CASE toks[pos].t \in {"{", "["} -> 1
          [] toks[pos].t \in {"}", "]"} ->
                IF first \/ pos = 1 THEN 1 ELSE 2 * depth
          [] toks[pos].t = "key"  -> item + StrBytes(toks[pos].v) + 2
          [] toks[pos].t = "str"  -> item + StrBytes(toks[pos].v)
          [] toks[pos].t = "rest" -> toks[pos].v

TextBytes(toks) == SumSeq([pos \in 1..Len(toks) |-> TokBytes(toks, pos)])

Kind(toks, pos) == IF pos <= Len(toks) THEN toks[pos].t ELSE "eof"

ParseFail == [ok |-> FALSE, val |-> <<>>, next |-> 0]

RECURSIVE ParseStrings(_, _, _)
ParseStrings(toks, pos, acc) ==
    CASE Kind(toks, pos) = "]"   -> [ok |-> TRUE, val |-> acc, next |-> pos + 1]
      [] Kind(toks, pos) = "str" -> ParseStrings(toks, pos + 1, Append(acc, toks[pos].v))
      [] OTHER                   -> ParseFail

ParseList(toks, pos) ==
    IF Kind(toks, pos) = "[" THEN ParseStrings(toks, pos + 1, <<>>) ELSE ParseFail

\* the members of an object whose values are parsed at nesting depth `depth`
RECURSIVE ParseMembers(_, _, _, _)
ParseObject(toks, pos, depth) ==
    IF Kind(toks, pos) = "{" THEN ParseMembers(toks, pos + 1, depth, <<>>) ELSE ParseFail

ParseMembers(toks, pos, depth, acc) ==
    CASE Kind(toks, pos) = "}"   -> [ok |-> TRUE, val |-> acc, next |-> pos + 1]
      [] Kind(toks, pos) = "key" ->
            LET v == IF depth = 1 THEN ParseObject(toks, pos + 1, 2)
                                  ELSE ParseList(toks, pos + 1)
            IN  IF v.ok
                THEN ParseMembers(toks, v.next, depth, DictSet(acc, toks[pos].v[1], v.val))
                ELSE ParseFail
      [] OTHER                   -> ParseFail

\* [ok, val]: ok is FALSE where json.load raises JSONDecodeError
json_load(toks) ==
    LET r == ParseObject(toks, 1, 1)
    IN  IF r.ok /\ r.next = Len(toks) + 1
        THEN [ok |-> TRUE, val |-> r.val]
        ELSE [ok |-> FALSE, val |-> <<>>]

\* ------------------------------------------------------- TfidfVectorizer
max_features == 1000

NotFitted == [fitted |-> FALSE, vocabulary |-> <<>>, idf |-> <<>>]

NoMatrix == [set |-> FALSE, rows |-> <<>>]

\* the stored (non-zero) columns of a sparse row, in column order
Support(row) == SelectSeq([j \in 1..Len(row) |-> j], LAMBDA j : ~IsZero(row[j]))

\* the squares of the stored entries, added up in column order
RECURSIVE SumSquares(_, _, _, _)
SumSquares(row, cols, k, acc) ==
    IF k > Len(cols) THEN acc
    ELSE SumSquares(row, cols, k + 1, FAdd(acc, FMul(row[cols[k]], row[cols[k]])))

DivideRow(row, norm) == Array([j \in 1..Len(row) |-> FDiv(row[j], norm)])

ScaleByNorm(row, ss) == IF IsZero(ss) THEN row ELSE DivideRow(row, FSqrt(ss))

\* sklearn.preprocessing.normalize(norm="l2"): a zero row is left as it is
L2Normalize(row) == ScaleByNorm(row, SumSquares(row, Support(row), 1, Zero))

\* the corpus-wide count of the j-th term
TermCount(vocab, tokens, j) == SumSeq([i \in 1..Len(tokens) |-> Count(tokens[i], vocab[j])])

\* _limit_features: the max_features terms of highest corpus-wide count
LimitFeatures(vocab, tokens) ==
    IF Len(vocab) <= max_features THEN vocab
    ELSE LET rank(j) == Cardinality({u \in 1..Len(vocab) :
                            \/ TermCount(vocab, tokens, u) > TermCount(vocab, tokens, j)
                            \/ (TermCount(vocab, tokens, u) = TermCount(vocab, tokens, j)
                                /\ u < j)})
         IN  SelectSeq(vocab, LAMBDA t :
                 \E j \in 1..Len(vocab) : rank(j) < max_features /\ vocab[j] = t)

WeightedCount(c, idf) == IF c = 0 THEN Zero ELSE FMul(FromInt(c), idf)

\* the count row of one text scaled by idf and normalised (transform)
TfidfRow(vec, tokens) ==
    L2Normalize(Array([j \in 1..Len(vec.vocabulary) |->
        WeightedCount(Count(tokens, vec.vocabulary[j]), vec.idf[j])]))

\* the terms of the corpus in sorted order, cut to max_features
Vocabulary(tokens) ==
    LimitFeatures(SelectSeq(TermOrder, LAMBDA t :
                      \E i \in 1..Len(tokens) : Count(tokens[i], t) > 0),
                  tokens)

\* smooth idf: ln((1 + n) / (1 + df)) + 1
Idf(tokens, vocab) ==
    Array([j \in 1..Len(vocab) |->
        FAdd(LogTable[Len(tokens) + 1]
                     [Cardinality({i \in 1..Len(tokens) : Count(tokens[i], vocab[j]) > 0}) + 1],
             FromInt(1))])

Transformed(vec, tokens) ==
    [ok |-> TRUE, vectorizer |-> vec,
     matrix |-> [set |-> TRUE,
                 rows |-> Array([i \in 1..Len(tokens) |-> TfidfRow(vec, tokens[i])])]]

FitVocabulary(tokens, vocab) ==
    IF vocab = <<>>
    THEN [ok |-> FALSE, vectorizer |-> NotFitted, matrix |-> NoMatrix]
    ELSE Transformed([fitted |-> TRUE, vocabulary |-> vocab, idf |-> Idf(tokens, vocab)],
                     tokens)

FitTokens(tokens) == FitVocabulary(tokens, Vocabulary(tokens))

\* fit_transform(documents): [ok, vectorizer, matrix]; ok is FALSE where it
\* raises ValueError("empty vocabulary"), before it assigns anything
FitTransform(documents) ==
    FitTokens(Array([i \in 1..Len(documents) |-> Analyze(documents[i])]))

\* the sparse product of two rows: the stored entries of x, in column order
RECURSIVE DotFrom(_, _, _, _, _)
DotFrom(x, y, cols, k, acc) ==
    IF k > Len(cols) THEN acc
    ELSE DotFrom(x, y, cols, k + 1, FAdd(acc, FMul(x[cols[k]], y[cols[k]])))

\* sklearn cosine_similarity: both sides normalised again, then the dot product
cosine_similarity(query_vector, rows) ==
    LET qn == L2Normalize(query_vector) IN
    Array([i \in 1..Len(rows) |-> DotFrom(qn, L2Normalize(rows[i]), Support(qn), 1, Zero)])

\* ------------------------------------------------------------ RAGPipeline
\* the minimum similarity threshold 0.1 of line 194
Threshold == FDiv(FromInt(1), FromInt(10))

\* Flatten with a defect: the items of a subcategory come newest first
FlattenNewestFirst(kb) ==
    Concat([i \in 1..Len(kb) |->
        Concat([j \in 1..Len(kb[i].v) |->
            [k \in 1..Len(kb[i].v[j].v) |->
                [category |-> kb[i].k, subcategory |-> kb[i].v[j].k,
                 content |-> kb[i].v[j].v[Len(kb[i].v[j].v) + 1 - k]]]])])

\* the documents and their metadata in the order of the three nested loops
Flatten(kb) ==
    Concat([i \in 1..Len(kb) |->
        Concat([j \in 1..Len(kb[i].v) |->
            [k \in 1..Len(kb[i].v[j].v) |->
                [category |-> kb[i].k, subcategory |-> kb[i].v[j].k,
                 content |-> kb[i].v[j].v[k]]]])])

Contents(meta) == [i \in 1..Len(meta) |-> meta[i].content]

WithDocuments(p, meta) ==
    [p EXCEPT !.documents = Contents(meta), !.document_metadata = meta]

\* lines 166-167: an exception of the fit leaves vectorizer and matrix as they were
Fit(p1, fit) ==
    IF ~fit.ok THEN [p |-> p1, exc |-> "ValueError"]
    ELSE [p |-> [p1 EXCEPT !.vectorizer = fit.vectorizer, !.tfidf_matrix = fit.matrix],
          exc |-> "none"]

FitDocuments(p1) ==
    IF p1.documents = <<>> THEN [p |-> p1, exc |-> "none"]
    ELSE Fit(p1, FitTransform(p1.documents))

\* _create_embeddings: [p, exc]; the two lists are replaced before the fit
create_embeddings(p) == FitDocuments(WithDocuments(p, Flatten(p.knowledge_base)))

(***************************************************************************)
(* numpy's argsort of line 190 is of the default kind, "quicksort": an     *)
(* introsort on an array tosort of indices, which cuts a partition of more *)
(* than SMALL_QUICKSORT + 1 elements at the median of three, sorts a       *)
(* smaller one by insertion, and turns to heapsort when the depth          *)
(* allowance is used up.  Only the insertion sort keeps equal scores in    *)
(* index order.  v is the array of scores; positions count from 1.         *)
(***************************************************************************)
SMALL_QUICKSORT == 16

Swap(tosort, i, j) == [tosort EXCEPT ![i] = tosort[j], ![j] = tosort[i]]

SwapIfLess(v, tosort, i, j) ==
    IF FLess(v[tosort[i]], v[tosort[j]]) THEN Swap(tosort, i, j) ELSE tosort

\* do ++pi while v[*pi] < vp, entered with pi already advanced once
RECURSIVE ScanUp(_, _, _, _)
ScanUp(v, tosort, pi, vp) ==
    IF FLess(v[tosort[pi]], vp) THEN ScanUp(v, tosort, pi + 1, vp) ELSE pi

\* do --pj while vp < v[*pj], entered with pj already lowered once
RECURSIVE ScanDown(_, _, _, _)
ScanDown(v, tosort, pj, vp) ==
    IF FLess(vp, v[tosort[pj]]) THEN ScanDown(v, tosort, pj - 1, vp) ELSE pj

\* the for (;;) loop of the partition, s = [tosort, pi, pj]: both scans, then
\* either the end (pi >= pj) or a swap and the next round
Scanned(v, s, vp) ==
    [tosort |-> s.tosort,
     pi |-> ScanUp(v, s.tosort, s.pi + 1, vp),
     pj |-> ScanDown(v, s.tosort, s.pj - 1, vp)]

RECURSIVE PartitionLoop(_, _, _)
PartitionLoop(v, s, vp) ==
    IF s.pi >= s.pj THEN s
    ELSE PartitionLoop(v, Scanned(v, [s EXCEPT !.tosort = Swap(s.tosort, s.pi, s.pj)], vp), vp)

\* the pivot is parked at pr - 1, the scans run between pl and pr - 1, and the
\* pivot goes to where they met
Parked(v, tosort, pl, pm, pr) ==
    PartitionLoop(v, Scanned(v, [tosort |-> Swap(tosort, pm, pr - 1), pi |-> pl, pj |-> pr - 1],
                             v[tosort[pm]]),
                  v[tosort[pm]])

Placed(part, pr) == [tosort |-> Swap(part.tosort, part.pi, pr - 1), pi |-> part.pi]

\* the three conditional swaps bring the median of pl, pm, pr to pm
Partition(v, tosort, pl, pr) ==
    Placed(Parked(v, SwapIfLess(v, SwapIfLess(v, SwapIfLess(v, tosort,
                                                            pl + ((pr - pl) \div 2), pl),
                                              pr, pl + ((pr - pl) \div 2)),
                                pl + ((pr - pl) \div 2), pl),
                  pl, pl + ((pr - pl) \div 2), pr),
           pr)

\* the insertion sort: where the element taken at pi goes, and tosort with the
\* elements from there up to pi moved up by one
RECURSIVE Slot(_, _, _, _, _)
Slot(v, tosort, pl, pj, vp) ==
    IF pj > pl /\ FLess(vp, v[tosort[pj - 1]]) THEN Slot(v, tosort, pl, pj - 1, vp) ELSE pj

MovedTo(tosort, pj, pi) ==
    Array([k \in 1..Len(tosort) |->
              IF k = pj THEN tosort[pi]
              ELSE IF k > pj /\ k <= pi THEN tosort[k - 1]
              ELSE tosort[k]])

\* for (pi = pl + 1; pi <= pr; ++pi), s = [tosort, pi]
RECURSIVE InsertionSort(_, _, _, _)
InsertionSort(v, s, pl, pr) ==
    IF s.pi > pr THEN s.tosort
    ELSE InsertionSort(v, [tosort |-> MovedTo(s.tosort,
                                               Slot(v, s.tosort, pl, s.pi, v[s.tosort[s.pi]]),
                                               s.pi),
                           pi |-> s.pi + 1], pl, pr)

\* aheapsort_ on the n elements after position off; a[i] is tosort[off + i].
\* The sift loop: tmp is on its way down from i, j is the child looked at
RECURSIVE Sift(_, _, _, _, _, _, _)
RECURSIVE SiftTo(_, _, _, _, _, _, _)
Sift(v, tosort, off, tmp, i, j, n) ==
    IF j > n THEN [tosort EXCEPT ![off + i] = tmp]
    ELSE IF j < n /\ FLess(v[tosort[off + j]], v[tosort[off + j + 1]])
         THEN SiftTo(v, tosort, off, tmp, i, j + 1, n)
         ELSE SiftTo(v, tosort, off, tmp, i, j, n)

SiftTo(v, tosort, off, tmp, i, j, n) ==
    IF FLess(v[tmp], v[tosort[off + j]])
    THEN Sift(v, [tosort EXCEPT ![off + i] = tosort[off + j]], off, tmp, j, j + j, n)
    ELSE [tosort EXCEPT ![off + i] = tmp]

\* for (l = n >> 1; l > 0; --l), s = [tosort, l]
RECURSIVE BuildHeap(_, _, _, _)
BuildHeap(v, s, off, n) ==
    IF s.l = 0 THEN s.tosort
    ELSE BuildHeap(v, [tosort |-> Sift(v, s.tosort, off, s.tosort[off + s.l], s.l, 2 * s.l, n),
                       l |-> s.l - 1],
                   off, n)

\* for (; n > 1;), s = [tosort, n]
RECURSIVE DrainHeap(_, _, _)
DrainHeap(v, s, off) ==
    IF s.n <= 1 THEN s.tosort
    ELSE DrainHeap(v, [tosort |-> Sift(v, [s.tosort EXCEPT ![off + s.n] = s.tosort[off + 1]],
                                       off, s.tosort[off + s.n], 1, 2, s.n - 1),
                       n |-> s.n - 1],
                   off)

aheapsort(v, tosort, off, n) ==
    DrainHeap(v, [tosort |-> BuildHeap(v, [tosort |-> tosort, l |-> n \div 2], off, n), n |-> n],
              off)

\* aquicksort_: the partition [pl, pr] being worked on, its depth allowance,
\* and the stack of the partitions put aside with theirs
RECURSIVE aquicksort(_, _, _, _, _, _)
RECURSIVE QuickLoop(_, _, _, _, _, _)
RECURSIVE QuickPush(_, _, _, _, _, _)
RECURSIVE StackPop(_, _, _)
aquicksort(v, tosort, pl, pr, cdepth, stack) ==
    IF cdepth < 0 THEN StackPop(v, aheapsort(v, tosort, pl - 1, pr - pl + 1), stack)
    ELSE QuickLoop(v, tosort, pl, pr, cdepth, stack)

\* while ((pr - pl) > SMALL_QUICKSORT): the larger part is put aside
QuickLoop(v, tosort, pl, pr, cdepth, stack) ==
    IF pr - pl > SMALL_QUICKSORT
    THEN QuickPush(v, Partition(v, tosort, pl, pr), pl, pr, cdepth, stack)
    ELSE StackPop(v, InsertionSort(v, [tosort |-> tosort, pi |-> pl + 1], pl, pr), stack)

QuickPush(v, part, pl, pr, cdepth, stack) ==
    IF part.pi - pl < pr - part.pi
    THEN QuickLoop(v, part.tosort, pl, part.pi - 1, cdepth - 1,
                Append(stack, [pl |-> part.pi + 1, pr |-> pr, cdepth |-> cdepth - 1]))
    ELSE QuickLoop(v, part.tosort, part.pi + 1, pr, cdepth - 1,
                Append(stack, [pl |-> pl, pr |-> part.pi - 1, cdepth |-> cdepth - 1]))

StackPop(v, tosort, stack) ==
    IF stack = <<>> THEN tosort
    ELSE aquicksort(v, tosort, stack[Len(stack)].pl, stack[Len(stack)].pr,
                    stack[Len(stack)].cdepth, SubSeq(stack, 1, Len(stack) - 1))

\* similarities.argsort(): the indices in ascending order of score; the depth
\* limit is npy_get_msb(num) * 2
Argsort(sims) ==
    aquicksort(sims, Array([i \in 1..Len(sims) |-> i]), 1, Len(sims), 
               IF Len(sims) = 0 THEN 0 ELSE 2 * (BitLen(Len(sims)) - 1), <<>>)

\* seq[start:] of Python, start counted from the end when negative
SliceFrom(seq, start) ==
    LET n    == Len(seq)
        from == IF start < 0 THEN (IF n + start < 0 THEN 0 ELSE n + start)
                ELSE (IF start > n THEN n ELSE start)
    IN  SubSeq(seq, from + 1, n)

Reverse(seq) == [i \in 1..Len(seq) |-> seq[Len(seq) + 1 - i]]

\* Similarities with a defect: the vectorizer is fitted again, on the corpus and
\* the query
SimilaritiesRefitted(p, query) ==
    LET f == FitTransform(Append(p.documents, query)) IN
    cosine_similarity(f.matrix.rows[Len(p.documents) + 1],
                      SubSeq(f.matrix.rows, 1, Len(p.tfidf_matrix.rows)))

Similarities(p, query) ==
    cosine_similarity(TfidfRow(p.vectorizer, Analyze(query)), p.tfidf_matrix.rows)

\* argsort()[-top_k:][::-1]
TopIndices(sims, top_k) == Reverse(SliceFrom(Argsort(sims), 0 - top_k))

\* Hits with a defect: no minimum similarity
HitsKeepAll(sims, top_k) == TopIndices(sims, top_k)

\* lines 193-194: the top indices whose score is above the threshold
Hits(sims, top_k) ==
    SelectSeq(TopIndices(sims, top_k), LAMBDA idx : FLess(Threshold, sims[idx]))

\* lines 195-198
Results(p, sims, hits) ==
    [h \in 1..Len(hits) |->
        [category         |-> p.document_metadata[hits[h]].category,
         subcategory      |-> p.document_metadata[hits[h]].subcategory,
         content          |-> p.document_metadata[hits[h]].content,
         similarity_score |-> sims[hits[h]]]]

Ranked(p, sims, top_k) == Results(p, sims, Hits(sims, top_k))

\* retrieve_relevant_info with a defect: no early return on an empty corpus
RetrieveWithoutEmptyCheck(p, query, top_k) ==
    IF ~p.vectorizer.fitted THEN [exc |-> "NotFittedError", results |-> <<>>]
    ELSE [exc |-> "none", results |-> Ranked(p, Similarities(p, query), top_k)]

\* retrieve_relevant_info: [exc, results]
retrieve_relevant_info(p, query, top_k) ==
    IF p.documents = <<>> THEN [exc |-> "none", results |-> <<>>]
    ELSE IF ~p.vectorizer.fitted THEN [exc |-> "NotFittedError", results |-> <<>>]
    ELSE [exc |-> "none", results |-> Ranked(p, Similarities(p, query), top_k)]

\* SearchQueries with a defect: only the game idea and the genre are searched
SearchQueriesIdeaOnly(game_idea, genre) == <<game_idea, genre>>

\* lines 215-221: the five derived queries
SearchQueries(game_idea, genre) ==
    <<game_idea, genre, genre \o <<"mechanics">>, genre \o <<"game", "design">>,
      <<"Unity", "best", "practices">>>>

\* line 226
EnhanceTopK == 3

\* line 241
ContextLimit == 10

\* UniqueInfo with a defect: every retrieved entry is kept
UniqueInfoKeepsAll(relevant_info, i, unique_info) ==
    [j \in 1..Len(relevant_info) |-> [k |-> relevant_info[j].content, v |-> relevant_info[j]]]

\* UniqueInfo with a defect: the first entry seen for a content is kept
RECURSIVE UniqueInfoKeepsFirst(_, _, _)
UniqueInfoKeepsFirst(relevant_info, i, unique_info) ==
    IF i > Len(relevant_info) THEN unique_info
    ELSE UniqueInfoKeepsFirst(relevant_info, i + 1,
            IF ~DictHas(unique_info, relevant_info[i].content)
            THEN DictSet(unique_info, relevant_info[i].content, relevant_info[i])
            ELSE unique_info)

\* lines 230-234: a dict keyed by content; a later entry replaces the kept one
\* only when its score is greater, and keeps the key's position
RECURSIVE UniqueInfo(_, _, _)
UniqueInfo(relevant_info, i, unique_info) ==
    IF i > Len(relevant_info) THEN unique_info
    ELSE LET info == relevant_info[i]
             key  == info.content
         IN  UniqueInfo(relevant_info, i + 1,
                IF ~DictHas(unique_info, key)
                   \/ FLess(DictGet(unique_info, key).similarity_score, info.similarity_score)
                THEN DictSet(unique_info, key, info)
                ELSE unique_info)

\* sorted(values, key=score, reverse=True): descending, equal scores keep their order
SortedByScore(infos) ==
    LET pos(i) == 1 + Cardinality({j \in 1..Len(infos) :
                      FLess(infos[i].similarity_score, infos[j].similarity_score)
                      \/ (infos[j].similarity_score = infos[i].similarity_score /\ j < i)})
    IN  [r \in 1..Len(infos) |-> infos[CHOOSE i \in 1..Len(infos) : pos(i) = r]]

TextLine(kind, text) == [kind |-> kind, text |-> text, category |-> "", subcategory |-> ""]

\* Prompt with a defect: the context block replaces the original prompt
PromptReplaced(context_parts, original_prompt) ==
    IF context_parts # <<>>
    THEN <<TextLine("blank", <<>>), TextLine("header", <<>>)>>
         \o context_parts
         \o <<TextLine("blank", <<>>), TextLine("footer", <<>>)>>
    ELSE <<TextLine("prompt", original_prompt)>>

\* lines 244-255
Prompt(context_parts, original_prompt) ==
    IF context_parts # <<>>
    THEN <<TextLine("blank", <<>>), TextLine("prompt", original_prompt),
           TextLine("blank", <<>>), TextLine("header", <<>>)>>
         \o context_parts
         \o <<TextLine("blank", <<>>), TextLine("footer", <<>>)>>
    ELSE <<TextLine("prompt", original_prompt)>>

\* FirstTen with a defect: the cut keeps the end of the list
LastTen(sorted_info) ==
    SubSeq(sorted_info,
           IF Len(sorted_info) < ContextLimit THEN 1
           ELSE Len(sorted_info) - ContextLimit + 1,
           Len(sorted_info))

\* sorted_info[:10]
FirstTen(sorted_info) ==
    SubSeq(sorted_info, 1,
           IF Len(sorted_info) < ContextLimit THEN Len(sorted_info) ELSE ContextLimit)

Bullets(kept) ==
    [b \in 1..Len(kept) |->
        [kind |-> "bullet", text |-> kept[b].content,
         category |-> kept[b].category, subcategory |-> kept[b].subcategory]]

DictValues(d) == [u \in 1..Len(d) |-> d[u].v]

\* lines 230-242
ContextParts(relevant_info) ==
    Bullets(FirstTen(SortedByScore(DictValues(UniqueInfo(relevant_info, 1, <<>>)))))

\* lines 224-227: the first retrieval that raises ends the call
Retrieved(p, queries) ==
    [q \in 1..Len(queries) |-> retrieve_relevant_info(p, queries[q], EnhanceTopK)]

EnhanceWith(found, original_prompt) ==
    IF \E q \in 1..Len(found) : found[q].exc # "none"
    THEN [exc |-> found[CHOOSE q \in 1..Len(found) :
                          /\ found[q].exc # "none"
                          /\ \A r \in 1..(q - 1) : found[r].exc = "none"].exc,
          value |-> <<>>]
    ELSE [exc |-> "none",
          value |-> Prompt(ContextParts(Concat([q \in 1..Len(found) |-> found[q].results])),
                           original_prompt)]

\* enhance_prompt_with_rag: [exc, value]; value is the returned string as its lines
enhance_prompt_with_rag(p, original_prompt, game_idea, genre) ==
    EnhanceWith(Retrieved(p, SearchQueries(game_idea, genre)), original_prompt)

\* get_knowledge_base_stats
get_knowledge_base_stats(p) ==
    [total_items    |-> SumSeq([i \in 1..Len(p.knowledge_base) |->
                                   CategoryCount(p.knowledge_base[i].v)]),
     categories     |-> [i \in 1..Len(p.knowledge_base) |->
                            [k |-> p.knowledge_base[i].k,
                             v |-> CategoryCount(p.knowledge_base[i].v)]],
     document_count |-> Len(p.documents)]

\* _save_knowledge_base as the process that calls it sees it: the file is
\* rewritten whole
save_knowledge_base(d, kb) == [d EXCEPT !.exists = TRUE, !.toks = json_dump(kb)]

\* _load_knowledge_base: [exc, kb, disk]
load_knowledge_base(d) ==
    IF ~d.exists
    THEN [exc |-> "none", kb |-> DefaultKnowledgeBase,
          disk |-> save_knowledge_base(d, DefaultKnowledgeBase)]
    ELSE IF json_load(d.toks).ok
    THEN [exc |-> "none", kb |-> json_load(d.toks).val, disk |-> d]
    ELSE [exc |-> "JSONDecodeError", kb |-> <<>>, disk |-> d]

Unconstructed ==
    [alive |-> FALSE, knowledge_base |-> <<>>, documents |-> <<>>,
     document_metadata |-> <<>>, vectorizer |-> NotFitted, tfidf_matrix |-> NoMatrix]

\* line 40
InitEmbedded(d, emb) ==
    IF emb.exc # "none"
    THEN [exc |-> emb.exc, p |-> Unconstructed, disk |-> d,
          calls |-> <<"_load_knowledge_base", "_create_embeddings">>]
    ELSE [exc |-> "none", p |-> emb.p, disk |-> d,
          calls |-> <<"_load_knowledge_base", "_create_embeddings">>]

\* lines 39-40
InitLoaded(ld) ==
    IF ld.exc # "none"
    THEN [exc |-> ld.exc, p |-> Unconstructed, disk |-> ld.disk,
          calls |-> <<"_load_knowledge_base">>]
    ELSE InitEmbedded(ld.disk,
             create_embeddings([Unconstructed EXCEPT !.alive = TRUE,
                                                     !.knowledge_base = ld.kb]))

\* __init__: [exc, p, disk, calls]; an exception leaves no object behind; calls
\* are the methods of the pipeline it has called, in order
init(d) ==
    IF d.dir = "blocked"
    THEN [exc |-> "FileExistsError", p |-> Unconstructed, disk |-> d, calls |-> <<>>]
    ELSE InitLoaded(load_knowledge_base([d EXCEPT !.dir = "present"]))

AddResult(emb, d1) ==
    [exc |-> emb.exc, p |-> emb.p, disk |-> d1,
     calls |-> <<"_save_knowledge_base", "_create_embeddings">>]

\* SaveAndEmbed with a defect: the file is written and the index is left alone
SaveOnly(p1, d) ==
    [exc |-> "none", p |-> p1, disk |-> save_knowledge_base(d, p1.knowledge_base),
     calls |-> <<"_save_knowledge_base">>]

\* lines 277-280
SaveAndEmbed(p1, d) ==
    AddResult(create_embeddings(p1), save_knowledge_base(d, p1.knowledge_base))

\* add_to_knowledge_base with a defect: the file is written before the extend
AddSavingFirst(p, d, category, subcategory, content) ==
    AddResult(create_embeddings([p EXCEPT !.knowledge_base =
                  KbExtend(p.knowledge_base, category, subcategory, content)]),
              save_knowledge_base(d, p.knowledge_base))

\* add_to_knowledge_base: [exc, p, disk, calls]
add_to_knowledge_base(p, d, category, subcategory, content) ==
    SaveAndEmbed([p EXCEPT !.knowledge_base =
                     KbExtend(p.knowledge_base, category, subcategory, content)], d)

\* ------------------------------------------------------------------ inputs
\* two pipelines on the same knowledge_base directory: 1 is main.py's
\* rag_pipeline (statistics, add and search endpoints) or the object a script
\* adds to and then augments with (src/test_rag.py, src/demo_genre_suggestions.py);
\* 2 is the one GameEnhancer constructs, which is only augmented with
Instances == {1, 2}

Categories == {"game_design", "unity_specific"}

Subcategories == {"new_cat"}

DoubleJump == <<"Double", "jump">>
WallJump == <<"the", "Wall", "jump">>
LetterA == <<"a">>

ContentLists == UNION {[1..n -> {DoubleJump, LetterA}] : n \in 0..MaxItems}

MaxTopK == 3

TopKs == (0 - 1)..MaxTopK

OriginalPrompt == <<"Suggest", "mechanics">>

GameIdeas == {<<"Double", "jump">>, <<"fantasy", "RPG">>}

\* the storage location before the first pipeline is constructed
OneDocRecord ==
    <<[k |-> "game_design", v |-> <<[k |-> "platformer_mechanics", v |-> <<WallJump>>]>>]>>

HigherPlatforms ==
    <<"Double", "jump", "allows", "players", "to", "reach", "higher", "platforms">>

\* a knowledge base of the one document "Double jump allows players to reach
\* higher platforms"
DoubleJumpRecord ==
    <<[k |-> "game_design",
       v |-> <<[k |-> "platformer_mechanics", v |-> <<HigherPlatforms>>]>>]>>

InitialDisks ==
    {[dir |-> "present", exists |-> TRUE, toks |-> json_dump(<<>>)],
     [dir |-> "present", exists |-> TRUE, toks |-> json_dump(OneDocRecord)],
     [dir |-> "present", exists |-> TRUE, toks |-> json_dump(DoubleJumpRecord)],
     [dir |-> "present", exists |-> TRUE, toks |-> SubSeq(json_dump(OneDocRecord), 1, 4)],
     [dir |-> "blocked", exists |-> FALSE, toks |-> <<>>]}

\* ------------------------------------------------------------------- state
VARIABLES
    disk,    \* the storage location: directory state, knowledge_base.json
    pl,      \* the RAGPipeline objects
    out,     \* the call that returned last, what it returned and what it called
    nAdds,   \* add_to_knowledge_base calls made
    call,    \* per pipeline, the add_to_knowledge_base it is inside of when
             \* its process runs next to another one
    loop,    \* the event loop of main.py: the /rag/add-knowledge requests it
             \* was handed and the one whose handler it is running
    seen     \* per pipeline, the augmentation its caller got last

vars == <<disk, pl, out, nAdds, call, loop, seen>>

NoArgs == [category |-> "", subcategory |-> "", content |-> <<>>,
           query |-> <<>>, top_k |-> 0, game_idea |-> <<>>, genre |-> <<>>]

NoOut == [op |-> "none", inst |-> 0, exc |-> "none", args |-> NoArgs, val |-> <<>>,
          calls |-> <<>>]

\* not inside a call; otherwise: the arguments and (for the properties only)
\* the file as it was when the call began
NoCall ==
    [active |-> FALSE, args |-> NoArgs,
     before |-> [dir |-> "present", exists |-> FALSE, toks |-> <<>>]]

\* nothing kept; otherwise the arguments and the result of the augmentation
\* the caller got last from this knowledge base, and whether it has searched
\* or asked for statistics since
NotSeen == [set |-> FALSE, args |-> NoArgs, exc |-> "none", val |-> <<>>, between |-> FALSE]

Init ==
    /\ disk \in InitialDisks
    /\ pl = [i \in Instances |-> Unconstructed]
    /\ out = NoOut
    /\ nAdds = 0
    /\ call = [i \in Instances |-> NoCall]
    /\ loop = [tasks |-> <<>>, running |-> 0]
    /\ seen = [i \in Instances |-> NotSeen]

\* the caller takes the returned value (or the exception)
Respond ==
    /\ out.op # "none"
    /\ out' = NoOut
    /\ UNCHANGED <<disk, pl, nAdds, call, loop, seen>>

\* RAGPipeline()
Construct(i) ==
    /\ out.op = "none"
    /\ ~pl[i].alive
    /\ \E r \in {init(disk)} :
        /\ pl' = [pl EXCEPT ![i] = r.p]
        /\ disk' = r.disk
        /\ out' = [NoOut EXCEPT !.op = "init", !.inst = i, !.exc = r.exc,
                     !.calls = r.calls]
    /\ UNCHANGED <<nAdds, call, loop, seen>>

\* add_to_knowledge_base(category, subcategory, content), start to end
Add(i, category, subcategory, content) ==
    /\ out.op = "none"
    /\ pl[i].alive /\ ~call[i].active
    /\ nAdds < MaxAdds
    /\ \E r \in {add_to_knowledge_base(pl[i], disk, category, subcategory, content)} :
        /\ pl' = [pl EXCEPT ![i] = r.p]
        /\ disk' = r.disk
        /\ out' = [NoOut EXCEPT !.op = "add", !.inst = i, !.exc = r.exc,
                     !.args = [NoArgs EXCEPT !.category = category,
                                  !.subcategory = subcategory, !.content = content],
                     !.val = IF r.exc = "none"
                             THEN <<get_knowledge_base_stats(r.p)>> ELSE <<>>,
                     !.calls = r.calls]
    /\ nAdds' = nAdds + 1
    /\ UNCHANGED <<call, loop, seen>>

\* retrieve_relevant_info(query, top_k)
Search(i, query, top_k) ==
    /\ out.op = "none"
    /\ pl[i].alive /\ ~call[i].active
    /\ \E r \in {retrieve_relevant_info(pl[i], query, top_k)} :
        out' = [NoOut EXCEPT !.op = "search", !.inst = i, !.exc = r.exc,
                  !.args = [NoArgs EXCEPT !.query = query, !.top_k = top_k],
                  !.val = r.results]
    /\ UNCHANGED <<disk, pl, nAdds, call, loop, seen>>

\* Enhance with a defect: the call keeps the game idea as a document
EnhanceKeepingIdea(i, game_idea, genre) ==
    /\ out.op = "none"
    /\ pl[i].alive /\ ~call[i].active
    /\ \E r \in {enhance_prompt_with_rag(pl[i], OriginalPrompt, game_idea, genre)} :
        out' = [NoOut EXCEPT !.op = "enhance", !.inst = i, !.exc = r.exc,
                  !.args = [NoArgs EXCEPT !.game_idea = game_idea, !.genre = genre],
                  !.val = r.value]
    /\ pl' = [pl EXCEPT ![i].documents = Append(@, game_idea)]
    /\ UNCHANGED <<disk, nAdds, call, loop, seen>>

\* enhance_prompt_with_rag(original_prompt, game_idea, genre)
Enhance(i, game_idea, genre) ==
    /\ out.op = "none"
    /\ pl[i].alive /\ ~call[i].active
    /\ \E r \in {enhance_prompt_with_rag(pl[i], OriginalPrompt, game_idea, genre)} :
        out' = [NoOut EXCEPT !.op = "enhance", !.inst = i, !.exc = r.exc,
                  !.args = [NoArgs EXCEPT !.game_idea = game_idea, !.genre = genre],
                  !.val = r.value]
    /\ UNCHANGED <<disk, pl, nAdds, call, loop, seen>>

\* get_knowledge_base_stats()
Stats(i) ==
    /\ out.op = "none"
    /\ pl[i].alive /\ ~call[i].active
    /\ out' = [NoOut EXCEPT !.op = "stats", !.inst = i,
                 !.val = <<get_knowledge_base_stats(pl[i])>>]
    /\ UNCHANGED <<disk, pl, nAdds, call, loop, seen>>

Next ==
    \/ Respond
    \/ \E i \in Instances : Construct(i)
    \/ \E c \in Categories, s \in Subcategories, content \in ContentLists :
          Add(1, c, s, content)
    \/ \E q \in {<<"double", "jump">>, <<"jump">>, <<>>, <<"wall">>, <<"wall", "jump">>},
          k \in TopKs : Search(1, q, k)
    \/ \E i \in Instances, g \in GameIdeas, h \in {<<"rpg">>, <<"jump">>} :
          Enhance(i, g, h)
    \/ Stats(1)

Spec == Init /\ [][Next]_vars

\* ------------------------------------------- two writers on one location
\* both pipelines add, each in a process of its own: main.py's rag_pipeline
\* through /rag/add-knowledge and the RAGPipeline a seeding script constructs
\* on the same knowledge_base directory (src/add_knowledge.py).  Nothing locks
\* knowledge_base.json, so what _save_knowledge_base does to the file is
\* seen by the other process step by step: open(kb_file, 'w') empties the
\* file; json.dump hands its text to the file object, which holds it back
\* while it is shorter than its buffer; the end of the with block writes it in
\* one piece at the offset of this file object, the start of the file.

\* characters the file object holds back before it writes; a longer text
\* reaches the file in several writes
BufferSize == 8192

\* the file after `text` is written at its start: what the file held beyond
\* the length of the text stays behind it
WriteAtStart(toks, text) ==
    IF TextBytes(toks) > TextBytes(text)
    THEN Append(text, Tok("rest", TextBytes(toks) - TextBytes(text)))
    ELSE text

\* add_to_knowledge_base up to the open of line 145: the knowledge base is
\* extended and the file is emptied
AddOpen(i, category, subcategory, content) ==
    /\ out.op = "none"
    /\ pl[i].alive /\ ~call[i].active
    /\ nAdds < MaxAdds
    /\ \E kb \in {KbExtend(pl[i].knowledge_base, category, subcategory, content)} :
        /\ TextBytes(json_dump(kb)) <= BufferSize
        /\ pl' = [pl EXCEPT ![i].knowledge_base = kb]
        /\ call' = [call EXCEPT ![i] =
                       [active |-> TRUE,
                        args   |-> [NoArgs EXCEPT !.category = category,
                                       !.subcategory = subcategory, !.content = content],
                        before |-> disk]]
    /\ disk' = [disk EXCEPT !.exists = TRUE, !.toks = <<>>]
    /\ nAdds' = nAdds + 1
    /\ UNCHANGED <<out, loop, seen>>

\* json.dump of line 146 and the end of the with block: the text is written
\* and the file closed; then _create_embeddings (line 280) and the return
AddClose(i) ==
    /\ out.op = "none"
    /\ call[i].active
    /\ \E r \in {create_embeddings(pl[i])} :
        /\ pl' = [pl EXCEPT ![i] = r.p]
        /\ out' = [NoOut EXCEPT !.op = "add", !.inst = i, !.exc = r.exc,
                     !.args = call[i].args,
                     !.val = IF r.exc = "none"
                             THEN <<get_knowledge_base_stats(r.p)>> ELSE <<>>,
                     !.calls = <<"_save_knowledge_base", "_create_embeddings">>]
    /\ disk' = [disk EXCEPT !.toks = WriteAtStart(@, json_dump(pl[i].knowledge_base))]
    /\ call' = [call EXCEPT ![i] = NoCall]
    /\ UNCHANGED <<nAdds, loop, seen>>

NextShared ==
    \/ Respond
    \/ \E i \in Instances : Construct(i)
    \/ \E i \in Instances, c \in Categories, s \in Subcategories,
          content \in ContentLists : AddOpen(i, c, s, content)
    \/ \E i \in Instances : AddClose(i)
    \/ \E i \in Instances : Stats(i)

SpecShared == Init /\ [][NextShared]_vars

\* ---------------------------------------------- requests on the event loop
\* main.py serves /rag/add-knowledge on the event loop of uvicorn (one
\* worker): every request becomes a task that runs add_knowledge_to_rag on
\* rag_pipeline.  The loop runs one task at a time and turns to another one
\* only where the running coroutine awaits or returns.

\* Awaits with a defect: the handler awaits between the save and the rebuild
AwaitsAfterSave == {"saved"}

\* the positions of add_knowledge_to_rag at which it awaits (main.py lines
\* 450-467 and the methods it calls hold no await)
Awaits == {}

\* a request POST /rag/add-knowledge is handed to the loop: a task with the
\* position `at` of its handler and, for the properties only, the knowledge
\* base its handler found and where the requests before it stood when it came
Arrive(category, subcategory, content) ==
    /\ out.op = "none"
    /\ pl[1].alive
    /\ nAdds < MaxAdds
    /\ loop' = [loop EXCEPT !.tasks =
                   Append(@, [at     |-> "start",
                              args   |-> [NoArgs EXCEPT !.category = category,
                                             !.subcategory = subcategory,
                                             !.content = content],
                              exc    |-> "none",
                              before |-> <<>>,
                              met    |-> [u \in 1..Len(loop.tasks) |-> loop.tasks[u].at]])]
    /\ nAdds' = nAdds + 1
    /\ UNCHANGED <<disk, pl, out, call, seen>>

\* add_to_knowledge_base lines 268-274: the in-memory knowledge base is extended
Extend(t) ==
    /\ out.op = "none"
    /\ t <= Len(loop.tasks) /\ loop.tasks[t].at = "start"
    /\ loop.running \in {0, t}
    /\ pl' = [pl EXCEPT ![1].knowledge_base =
                 KbExtend(@, loop.tasks[t].args.category, loop.tasks[t].args.subcategory,
                          loop.tasks[t].args.content)]
    /\ loop' = [loop EXCEPT !.tasks[t].at = "extended",
                            !.tasks[t].before = pl[1].knowledge_base,
                            !.running = IF "extended" \in Awaits THEN 0 ELSE t]
    /\ UNCHANGED <<disk, out, nAdds, call, seen>>

\* line 277: _save_knowledge_base
Save(t) ==
    /\ out.op = "none"
    /\ t <= Len(loop.tasks) /\ loop.tasks[t].at = "extended"
    /\ loop.running \in {0, t}
    /\ disk' = save_knowledge_base(disk, pl[1].knowledge_base)
    /\ loop' = [loop EXCEPT !.tasks[t].at = "saved", 
                            !.running = IF "saved" \in Awaits THEN 0 ELSE t]
    /\ UNCHANGED <<pl, out, nAdds, call, seen>>

\* line 280: _create_embeddings; then main.py lines 460-467: the statistics
\* and the response, or the error response
Rebuild(t) ==
    /\ out.op = "none"
    /\ t <= Len(loop.tasks) /\ loop.tasks[t].at = "saved"
    /\ loop.running \in {0, t}
    /\ \E r \in {create_embeddings(pl[1])} :
        /\ pl' = [pl EXCEPT ![1] = r.p]
        /\ out' = [NoOut EXCEPT !.op = "add", !.inst = 1, !.exc = r.exc,
                     !.args = loop.tasks[t].args,
                     !.val = IF r.exc = "none"
                             THEN <<get_knowledge_base_stats(r.p)>> ELSE <<>>,
                     !.calls = <<"_save_knowledge_base", "_create_embeddings">>]
        /\ loop' = [loop EXCEPT !.tasks[t].at = "done", !.tasks[t].exc = r.exc,
                                !.running = 0]
    /\ UNCHANGED <<disk, nAdds, call, seen>>

NextLoop ==
    \/ Respond
    \/ Construct(1)
    \/ \E c \in Categories, s \in Subcategories, content \in ContentLists :
          Arrive(c, s, content)
    \/ \E t \in 1..MaxAdds : Extend(t)
    \/ \E t \in 1..MaxAdds : Save(t)
    \/ \E t \in 1..MaxAdds : Rebuild(t)

SpecLoop == Init /\ [][NextLoop]_vars

\* ------------------------------------------------ a caller that asks again
\* GameEnhancer.enhance_idea asks its pipeline for the augmented prompt on
\* every request (game_enhancer.py line 48) and the scripts ask theirs in
\* loops; here the caller keeps the prompt it got, so that the answer to the
\* same question can be compared when it asks again.

\* the caller takes the returned value (or the exception) and keeps an
\* augmented prompt; a construction or an add begins a new knowledge base
Keep ==
    /\ out.op # "none"
    /\ seen' = CASE out.op = "enhance" ->
                      [seen EXCEPT ![out.inst] =
                          [set |-> TRUE, args |-> out.args, exc |-> out.exc,
                           val |-> out.val, between |-> FALSE]]
                 [] out.op \in {"search", "stats"} ->
                      [seen EXCEPT ![out.inst].between = seen[out.inst].set]
                 [] OTHER ->
                      [seen EXCEPT ![out.inst] = NotSeen]
    /\ out' = NoOut
    /\ UNCHANGED <<disk, pl, nAdds, call, loop>>

NextRepeat ==
    \/ Keep
    \/ \E i \in Instances : Construct(i)
    \/ \E c \in Categories : Add(1, c, "new_cat", <<DoubleJump>>)
    \/ \E k \in 1..2 : Search(1, <<"jump">>, k)
    \/ \E i \in Instances, g \in GameIdeas, h \in {<<"rpg">>, <<"jump">>} :
          Enhance(i, g, h)
    \/ Stats(1)

SpecRepeat == Init /\ [][NextRepeat]_vars

\* ------------------------------------------------- the default knowledge base
\* the genres of src/test_rag_no_api.py lines 128-133
SeedGenres == {<<"platformer">>, <<"shooter">>, <<"rpg">>, <<"puzzle">>}

\* src/test_rag_no_api.py lines 59-66: the content test_knowledge_addition adds
ProceduralElements ==
    <<<<"Procedural", "generation", "creates", "infinite", "replayability">>,
      <<"Roguelike", "elements", "add", "challenge", "and", "variety">>,
      <<"Metroidvania", "style", "exploration", "rewards", "player", "curiosity">>>>

\* the searches of src/test_rag_no_api.py (lines 38, 69 and 102-111)
ScriptSearches ==
    {[query |-> <<"platformer", "mechanics">>, top_k |-> 3],
     [query |-> <<"procedural", "generation">>, top_k |-> 2],
     [query |-> <<"Unity", "player", "movement">>, top_k |-> 2],
     [query |-> <<"game", "mechanics">>, top_k |-> 2],
     [query |-> <<"performance", "optimization">>, top_k |-> 2],
     [query |-> <<"UI", "systems">>, top_k |-> 2],
     [query |-> <<"audio", "implementation">>, top_k |-> 2]}

\* a test function returns: the pipeline it constructed is gone
Drop(i) ==
    /\ out.op = "none"
    /\ pl[i].alive /\ ~call[i].active
    /\ pl' = [pl EXCEPT ![i] = Unconstructed]
    /\ UNCHANGED <<disk, out, nAdds, call, loop, seen>>

\* nothing is stored yet: the first pipeline writes the default knowledge base
InitSeed ==
    /\ disk \in {[dir |-> "absent", exists |-> FALSE, toks |-> <<>>],
                 [dir |-> "present", exists |-> FALSE, toks |-> <<>>]}
    /\ pl = [i \in Instances |-> Unconstructed]
    /\ out = NoOut
    /\ nAdds = 0
    /\ call = [i \in Instances |-> NoCall]
    /\ loop = [tasks |-> <<>>, running |-> 0]
    /\ seen = [i \in Instances |-> NotSeen]

\* the calls of src/test_rag_no_api.py, each test function on a pipeline it
\* constructs: 1 is the one test_knowledge_addition adds to, 2 the one the
\* prompts are enhanced with (the game ideas of lines 128-133, a fantasy
\* RPG and camera control); the search endpoint's queries on 1; and the
\* genre "puzzles", a word that occurs in the default snippets
NextSeed ==
    \/ Respond
    \/ \E i \in Instances : Construct(i)
    \/ \E content \in {c \in {ProceduralElements} : nAdds < MaxSeedAdds} :
          Add(1, "game_design", "procedural_elements", content)
    \/ \E i \in Instances, s \in ScriptSearches : Search(i, s.query, s.top_k)
    \/ \E q \in {<<"double", "jump">>, <<"singleton", "pattern">>, <<"adventure">>,
                 <<"puzzle">>},
          k \in TopKs : Search(1, q, k)
    \/ \E g \in {<<"fantasy", "RPG">>, <<"2D", "platformer">>, <<"3D", "shooter">>,
                 <<"RPG", "adventure">>, <<"Puzzle", "game">>, <<"camera", "control">>},
          h \in SeedGenres \cup {<<"puzzles">>} : Enhance(2, g, h)
    \/ \E i \in Instances : Stats(i)
    \/ \E i \in Instances : Drop(i)

SpecSeed == InitSeed /\ [][NextSeed]_vars

\* -------------------------------------------------------------- properties
StatCount(stats, category) ==
    IF DictHas(stats.categories, category) THEN DictGet(stats.categories, category) ELSE 0

\* C1: a completed add_to_knowledge_base(c, s, items) raises total_items by
\* Len(items) and categories[c] by Len(items) (a missing category counting 0)
\* and leaves the count of every other category as it was.
C1_AddCounts ==
    [][(out.op = "none" /\ out'.op = "add" /\ out'.exc = "none") =>
        LET i      == out'.inst
            n      == Len(out'.args.content)
            before == get_knowledge_base_stats(pl[i])
            after  == get_knowledge_base_stats(pl'[i])
        IN  /\ after.total_items = before.total_items + n
            /\ StatCount(after, out'.args.category)
                 = StatCount(before, out'.args.category) + n
            /\ \A c \in Categories \ {out'.args.category} :
                 StatCount(after, c) = StatCount(before, c)
            /\ out'.val = <<after>>]_vars

\* a completed add of the same snippet twice to a pipeline that already holds a document
C1_Witness ==
    /\ out.op = "add" /\ out.exc = "none"
    /\ out.args.content = <<DoubleJump, DoubleJump>>
    /\ StatCount(out.val[1], out.args.category) >= 3

\* C2: when an add returns, the file holds exactly the in-memory knowledge
\* base, and a pipeline constructed from the file reports the same statistics.
C2_RoundTrip ==
    (out.op = "add" /\ out.exc = "none") =>
        /\ disk.exists
        /\ json_load(disk.toks) = [ok |-> TRUE, val |-> pl[out.inst].knowledge_base]
        /\ \E r \in {init(disk)} :
              /\ r.exc = "none"
              /\ get_knowledge_base_stats(r.p) = get_knowledge_base_stats(pl[out.inst])

\* the second of two completed adds, with both categories on file
C2_Witness ==
    /\ out.op = "add" /\ out.exc = "none" /\ nAdds = 2
    /\ Len(pl[out.inst].knowledge_base) = 2
    /\ out.val[1].total_items >= 3

\* documents, metadata, vocabulary and matrix of p come from one build
OneBuild(p) ==
    /\ Len(p.document_metadata) = Len(p.documents)
    /\ Contents(p.document_metadata) = p.documents
    /\ p.documents # <<>> =>
          /\ p.vectorizer.fitted /\ p.tfidf_matrix.set
          /\ Len(p.tfidf_matrix.rows) = Len(p.documents)
          /\ FitTransform(p.documents) =
                [ok |-> TRUE, vectorizer |-> p.vectorizer, matrix |-> p.tfidf_matrix]

\* C3 (as specified): whenever a search can run on a pipeline, its document
\* list, metadata list, fitted vocabulary and matrix belong to the same build
\* and have the same number of rows.
C3_ReaderSeesOneBuild ==
    \A i \in Instances : pl[i].alive => OneBuild(pl[i])

\* C4 (as specified): an add whose index rebuild fails leaves documents,
\* metadata, vocabulary and matrix as they were and raises RetrievalError.
C4_FailedRebuildKeepsSnapshot ==
    [][(out.op = "none" /\ out'.op = "add" /\ out'.exc # "none") =>
        LET i == out'.inst IN
        /\ pl'[i].documents = pl[i].documents
        /\ pl'[i].document_metadata = pl[i].document_metadata
        /\ pl'[i].vectorizer = pl[i].vectorizer
        /\ pl'[i].tfidf_matrix = pl[i].tfidf_matrix
        /\ out'.exc = "RetrievalError"]_vars

CountAbove(sims) == Cardinality({i \in 1..Len(sims) : FLess(Threshold, sims[i])})

NumAboveThreshold(p, query) ==
    IF p.documents = <<>> THEN 0 ELSE CountAbove(Similarities(p, query))

\* C5 (as specified): a search that returns holds at most
\* min(top_k, documents scoring above the threshold) results (a top_k below
\* zero counted as zero).
C5_ResultCountBound ==
    (out.op = "search" /\ out.exc = "none") =>
        /\ Len(out.val) <= (IF out.args.top_k < 0 THEN 0 ELSE out.args.top_k)
        /\ Len(out.val) <= NumAboveThreshold(pl[out.inst], out.args.query)

\* C6 (as specified): every returned score lies in [0, 1] and the scores do
\* not increase along the returned sequence.
C6_ScoresInUnitRangeSorted ==
    (out.op = "search" /\ out.exc = "none") =>
        /\ \A h \in 1..Len(out.val) :
              /\ FLeq(Zero, out.val[h].similarity_score)
              /\ FLeq(out.val[h].similarity_score, FromInt(1))
        /\ \A h \in 1..(Len(out.val) - 1) :
              FLeq(out.val[h + 1].similarity_score, out.val[h].similarity_score)

\* C7 (as specified): on a storage location that can be created, construction
\* never fails in load: the file is readable afterwards (it was, or the
\* default knowledge base was written) and no decode error surfaces.
C7_LoadNeverFails ==
    (out.op = "init" /\ disk.dir # "blocked") =>
        /\ out.exc # "JSONDecodeError"
        /\ disk.exists /\ json_load(disk.toks).ok

\* C8 (as specified): every subcategory of a pipeline's knowledge base holds
\* at least one snippet.
C8_NoEmptySubcategory ==
    \A i \in Instances :
        \A c \in 1..Len(pl[i].knowledge_base) :
            \A s \in 1..Len(pl[i].knowledge_base[c].v) :
                pl[i].knowledge_base[c].v[s].v # <<>>

\* C9 (as specified): a search with a blank query or with top_k <= 0 is
\* rejected with a ValidationError.
C9_InvalidSearchRejected ==
    (out.op = "search" /\ (out.args.query = <<>> \/ out.args.top_k <= 0)) =>
        out.exc = "ValidationError"

BulletTexts(value) ==
    LET idx == {b \in 1..Len(value) : value[b].kind = "bullet"} IN
    [b \in idx |-> value[b].text]

\* C10: the context block returned by enhance_prompt_with_rag holds no two
\* bullet lines with the same content.
C10_NoDuplicateBullets ==
    (out.op = "enhance" /\ out.exc = "none") =>
        \A a, b \in DOMAIN BulletTexts(out.val) :
            a # b => BulletTexts(out.val)[a] # BulletTexts(out.val)[b]

\* a context block of two bullets from a knowledge base that stores one
\* snippet under two categories
C10_Witness ==
    /\ out.op = "enhance" /\ out.exc = "none"
    /\ Cardinality(DOMAIN BulletTexts(out.val)) = 2
    /\ Cardinality({pl[2].document_metadata[m].category :
            m \in {n \in 1..Len(pl[2].document_metadata) :
                      pl[2].document_metadata[n].content = DoubleJump}}) >= 2
    /\ out.args.genre = <<"jump">>

\* the number of snippets stored before subcategory s of category c
ItemsBefore(kb, c, s) ==
    SumSeq([c2 \in 1..(c - 1) |-> CategoryCount(kb[c2].v)])
    + SumSeq([s2 \in 1..(s - 1) |-> Len(kb[c].v[s2].v)])

\* p's index holds one document per snippet of kb, in the order category,
\* subcategory, insertion, each with its labels
IndexedInOrder(p, kb) ==
    /\ Len(p.documents) = get_knowledge_base_stats(p).total_items
    /\ Len(p.document_metadata) = Len(p.documents)
    /\ \A c \in 1..Len(kb) : \A s \in 1..Len(kb[c].v) : \A k \in 1..Len(kb[c].v[s].v) :
          /\ p.documents[ItemsBefore(kb, c, s) + k] = kb[c].v[s].v[k]
          /\ p.document_metadata[ItemsBefore(kb, c, s) + k] =
                [category |-> kb[c].k, subcategory |-> kb[c].v[s].k,
                 content |-> kb[c].v[s].v[k]]
    /\ p.documents # <<>> =>
          /\ p.vectorizer.fitted /\ p.tfidf_matrix.set
          /\ Len(p.tfidf_matrix.rows) = Len(p.documents)

\* the best match of a search for the snippet's own text is the snippet
FoundByOwnText(p, item) ==
    \E r \in {retrieve_relevant_info(p, item, 1)} :
        /\ r.exc = "none"
        /\ Len(r.results) = 1
        /\ r.results[1].content = item

C12_EmptyCorpusSearch ==
    (out.op = "search" /\ get_knowledge_base_stats(pl[out.inst]).total_items = 0) =>
        /\ out.exc = "none"
        /\ out.val = <<>>

\* a search with a term and a positive top_k right after construction from {}
C12_Witness ==
    /\ out.op = "search" /\ out.args.query = <<"jump">> /\ out.args.top_k = 2
    /\ pl[out.inst].knowledge_base = <<>>
    /\ ~pl[out.inst].tfidf_matrix.set
    /\ nAdds = 0

\* C13 (as specified): enhance_prompt_with_rag never raises; when a derived
\* search fails it returns the original prompt unchanged.
C13_FailedAugmentationReturnsPrompt ==
    out.op = "enhance" =>
        /\ out.exc = "none"
        /\ (\E q \in 1..5 :
               Retrieved(pl[out.inst],
                         SearchQueries(out.args.game_idea, out.args.genre))[q].exc # "none")
             => out.val = <<TextLine("prompt", OriginalPrompt)>>

\* the results of the five derived searches, in query order
Merged(found) == Concat([q \in 1..Len(found) |-> found[q].results])

\* the number of bullets: one per distinct content, ten at most
Retained(merged) ==
    IF Cardinality({merged[i].content : i \in 1..Len(merged)}) < ContextLimit
    THEN Cardinality({merged[i].content : i \in 1..Len(merged)})
    ELSE ContextLimit

\* value is the prompt alone when nothing was retrieved, else the prompt,
\* the header, one bullet per retained result and the footer, in that order
PromptLayout(value, merged, original_prompt) ==
    IF merged = <<>> THEN value = <<TextLine("prompt", original_prompt)>>
    ELSE /\ Len(value) = Retained(merged) + 6
         /\ value[1] = TextLine("blank", <<>>)
         /\ value[2] = TextLine("prompt", original_prompt)
         /\ value[3] = TextLine("blank", <<>>)
         /\ value[4] = TextLine("header", <<>>)
         /\ \A b \in 5..(Len(value) - 2) :
               /\ value[b].kind = "bullet"
               /\ \E i \in 1..Len(merged) :
                     /\ value[b].text = merged[i].content
                     /\ value[b].category = merged[i].category
                     /\ value[b].subcategory = merged[i].subcategory
         /\ value[Len(value) - 1] = TextLine("blank", <<>>)
         /\ value[Len(value)] = TextLine("footer", <<>>)

\* C14: enhance_prompt_with_rag returns the original prompt unchanged when
\* the derived searches return nothing; otherwise the original prompt, the
\* fixed header, one bullet line per retained result and the fixed footer.
C14_PromptLayout ==
    (out.op = "enhance" /\ out.exc = "none") =>
        PromptLayout(out.val,
                     Merged(Retrieved(pl[out.inst],
                                      SearchQueries(out.args.game_idea, out.args.genre))),
                     OriginalPrompt)

\* a returned block of two bullets
C14_Witness ==
    /\ out.op = "enhance" /\ out.exc = "none"
    /\ Len(out.val) = 8
    /\ out.val[5].kind = "bullet" /\ out.val[6].kind = "bullet"
    /\ out.val[5].text # out.val[6].text

\* a bullet line reads "- <content> (Category: <category>/<subcategory>)"
HasCategoryLine(value) == \E b \in 1..Len(value) : value[b].kind = "bullet"

HasPromptLine(value, original_prompt) ==
    \E b \in 1..Len(value) : value[b] = TextLine("prompt", original_prompt)

\* C15: on the default knowledge base, enhance_prompt_with_rag applied to a
\* game idea and a genre among platformer, shooter, rpg and puzzle returns
\* the original prompt followed by more text, with at least one line that
\* carries "Category: ".
C15_SeedPromptEnhanced ==
    (/\ out.op = "enhance" /\ out.args.genre \in SeedGenres
     /\ pl[out.inst].knowledge_base = DefaultKnowledgeBase) =>
        /\ out.exc = "none"
        /\ Len(out.val) > 1
        /\ HasPromptLine(out.val, OriginalPrompt)
        /\ HasCategoryLine(out.val)

\* the fantasy RPG scenario has returned, with a bullet from the default
\* knowledge base's rpg_elements
C15_Witness ==
    /\ out.op = "enhance" /\ out.exc = "none"
    /\ out.args.game_idea = <<"fantasy", "RPG">> /\ out.args.genre = <<"rpg">>
    /\ pl[out.inst].knowledge_base = DefaultKnowledgeBase
    /\ \E b \in 1..Len(out.val) :
          out.val[b].kind = "bullet" /\ out.val[b].subcategory = "rpg_elements"

Entry(r) == [category |-> r.category, subcategory |-> r.subcategory, content |-> r.content]

Occurrences(seq, e) == Cardinality({i \in 1..Len(seq) : seq[i] = e})

\* no entry is returned more often than the corpus holds it
EachAtMostOnce(results, meta) ==
    \A h \in 1..Len(results) :
        Occurrences([i \in 1..Len(results) |-> Entry(results[i])], Entry(results[h]))
            <= Occurrences(meta, Entry(results[h]))

\* the one document of DoubleJumpRecord, returned alone with a score above 0.1
DoubleJumpFound(results) ==
    /\ Len(results) = 1
    /\ Entry(results[1]) = [category |-> "game_design",
                            subcategory |-> "platformer_mechanics",
                            content |-> HigherPlatforms]
    /\ FLess(Threshold, results[1].similarity_score)

\* C16 (as specified): a search whose top_k exceeds the number of documents
\* raises nothing and returns no document more than once; on the corpus of
\* the one document "Double jump allows players to reach higher platforms",
\* search("double jump", 3) returns that document alone, with a score above 0.1.
C16_TopKBeyondCorpus ==
    (out.op = "search" /\ out.args.top_k > Len(pl[out.inst].documents)) =>
        /\ out.exc = "none"
        /\ EachAtMostOnce(out.val, pl[out.inst].document_metadata)
        /\ (/\ pl[out.inst].knowledge_base = DoubleJumpRecord
            /\ out.args.query = <<"double", "jump">>) => DoubleJumpFound(out.val)

\* the index of p covers exactly the documents of its knowledge base
IndexCovers(p) ==
    /\ p.document_metadata = Flatten(p.knowledge_base)
    /\ p.documents = Contents(p.document_metadata)
    /\ p.documents # <<>> =>
          /\ p.vectorizer.fitted /\ p.tfidf_matrix.set
          /\ Len(p.tfidf_matrix.rows) = Len(p.documents)

\* knowledge base, file and index all hold the added items
FullyApplied(p, d, p1, d1, category, subcategory, content) ==
    /\ p1.knowledge_base = KbExtend(p.knowledge_base, category, subcategory, content)
    /\ d1.exists /\ d1.toks = json_dump(p1.knowledge_base)
    /\ IndexCovers(p1)

\* knowledge base, file and index are as they were before the call
RolledBack(p, d, p1, d1) == p1 = p /\ d1 = d

\* C17 (as specified): an add_to_knowledge_base that fails part-way leaves
\* the in-memory knowledge base, the persisted record and the index either
\* all with the new items or all as they were before the call.
C17_FailedAddAllOrNothing ==
    [][(out.op = "none" /\ out'.op = "add" /\ out'.exc # "none") =>
        LET i == out'.inst IN
        \/ FullyApplied(pl[i], disk, pl'[i], disk', out'.args.category,
                        out'.args.subcategory, out'.args.content)
        \/ RolledBack(pl[i], disk, pl'[i], disk')]_vars

\* hits are document positions in the order returned: equal scores in corpus
\* order, and no document left out that equals a returned one in score and
\* comes before it in the corpus
TiesInCorpusOrder(sims, hits) ==
    /\ \A h, g \in 1..Len(hits) :
          (h < g /\ sims[hits[h]] = sims[hits[g]]) => hits[h] < hits[g]
    /\ \A h \in 1..Len(hits), b \in 1..Len(sims) :
          (sims[b] = sims[hits[h]] /\ \A g \in 1..Len(hits) : hits[g] # b)
              => hits[h] < b

\* C18 (as specified): in the sequence retrieve_relevant_info returns, documents
\* of equal score appear in corpus order, and of equal-scored documents that
\* compete for the last of the top_k places the earlier one is returned.
C18_TiesInCorpusOrder ==
    (/\ out.op = "search" /\ out.exc = "none" /\ out.args.top_k >= 1
     /\ pl[out.inst].documents # <<>>) =>
        /\ out.val = Ranked(pl[out.inst], Similarities(pl[out.inst], out.args.query),
                            out.args.top_k)
        /\ TiesInCorpusOrder(Similarities(pl[out.inst], out.args.query),
                             Hits(Similarities(pl[out.inst], out.args.query),
                                  out.args.top_k))

\* every document of meta1 is among meta2, as often
ContainsAll(meta2, meta1) ==
    \A d \in 1..Len(meta1) : Occurrences(meta2, meta1[d]) >= Occurrences(meta1, meta1[d])

\* C19 (as specified): an augmentation by the idea-enhancement path
\* (GameEnhancer's pipeline, instance 2) queries an index that holds every
\* snippet of the index the knowledge-addition endpoint's pipeline
\* (instance 1) built with its last completed add.
C19_AugmenterSeesAdds ==
    (/\ out.op = "enhance" /\ out.inst = 2
     /\ pl[1].alive /\ IndexCovers(pl[1])) =>
        /\ IndexCovers(pl[2])
        /\ ContainsAll(pl[2].document_metadata, pl[1].document_metadata)

\* the documents one add_to_knowledge_base call stores
AddedEntries(category, subcategory, content) ==
    [k \in 1..Len(content) |->
        [category |-> category, subcategory |-> subcategory, content |-> content[k]]]

\* after holds every entry of before and of new, each as often as the two together
HoldsBoth(before, after, new) ==
    /\ Len(after) = Len(before) + Len(new)
    /\ \A e \in {before[b] : b \in 1..Len(before)} \cup {new[n] : n \in 1..Len(new)} :
          Occurrences(after, e) = Occurrences(before, e) + Occurrences(new, e)

\* the requests whose handlers have returned
Done(l) == {t \in 1..Len(l.tasks) : l.tasks[t].at = "done"}

\* the handler of request t has begun and has not returned
InHandler(l, t) == l.tasks[t].at \in {"extended", "saved"}

\* from l to l1 no handler moves while another one is inside its own
OneHandlerAtATime(l, l1) ==
    \A t, u \in 1..Len(l.tasks) :
        (t # u /\ InHandler(l, t)) => l1.tasks[u].at = l.tasks[u].at

\* the knowledge base the first of the handlers in D found
FoundFirst(l, D) ==
    l.tasks[CHOOSE t \in D : \A u \in D :
               Len(Flatten(l.tasks[t].before)) <= Len(Flatten(l.tasks[u].before))].before

\* the items of the requests in D with their labels
AllAdded(l, D) ==
    Concat([t \in 1..Len(l.tasks) |->
               IF t \in D
               THEN AddedEntries(l.tasks[t].args.category, l.tasks[t].args.subcategory,
                                 l.tasks[t].args.content)
               ELSE <<>>])

\* the handler of request t returns in the step to l1, p1, d1: the knowledge
\* base holds what the handler found plus its items, and what the first
\* handler found plus the items of every request answered so far, each once
\* per stored snippet; the file holds that knowledge base; the index covers it
ReturnsWhole(l, t, l1, p1, d1) ==
    /\ HoldsBoth(Flatten(l.tasks[t].before), Flatten(p1.knowledge_base),
                 AddedEntries(l.tasks[t].args.category, l.tasks[t].args.subcategory,
                              l.tasks[t].args.content))
    /\ HoldsBoth(Flatten(FoundFirst(l1, Done(l1))), Flatten(p1.knowledge_base),
                 AllAdded(l1, Done(l1)))
    /\ d1.exists /\ json_load(d1.toks).ok
    /\ json_load(d1.toks).val = p1.knowledge_base
    /\ l1.tasks[t].exc = "none" => IndexCovers(p1)

\* C20: add_to_knowledge_base calls issued to one pipeline while another one
\* is in progress run as whole units (extend, save, rebuild): no step of one
\* falls between the steps of another, and when a call returns the in-memory
\* knowledge base, the file and the index hold the items of every call made
\* so far once per stored snippet.
C20_AddsAreWholeUnits ==
    [][/\ OneHandlerAtATime(loop, loop')
       /\ \A t \in 1..Len(loop.tasks) :
             (loop.tasks[t].at # "done" /\ loop'.tasks[t].at = "done") =>
                 ReturnsWhole(loop, t, loop', pl'[1], disk')]_vars

\* two requests with the same snippet under two categories have been
\* answered; the second came while the handler of the first was between its
\* extend and its save
C20_Witness ==
    /\ Len(loop.tasks) = 2 /\ Done(loop) = {1, 2}
    /\ loop.tasks[1].exc = "none" /\ loop.tasks[2].exc = "none"
    /\ loop.tasks[2].met = <<"extended">>
    /\ loop.tasks[1].args.category = "game_design"
    /\ loop.tasks[2].args.category = "unity_specific"
    /\ loop.tasks[1].args.content = <<DoubleJump>>
    /\ loop.tasks[2].args.content = <<DoubleJump>>
    /\ pl[1].document_metadata =
          AddedEntries("game_design", "new_cat", <<DoubleJump>>)
              \o AddedEntries("unity_specific", "new_cat", <<DoubleJump>>)
    /\ json_load(disk.toks).val = pl[1].knowledge_base
    /\ Len(pl[1].tfidf_matrix.rows) = 2

\* the query has a term of the fitted vocabulary
SharesTerm(p, query) ==
    \E t \in 1..Len(Analyze(query)) :
        \E j \in 1..Len(p.vectorizer.vocabulary) :
            p.vectorizer.vocabulary[j] = Analyze(query)[t]

\* C21: every result retrieve_relevant_info returns has a similarity score
\* strictly above 0.1, and a query that shares no term with the vocabulary
\* returns the empty sequence.
C21_ScoresAboveThreshold ==
    (out.op = "search" /\ out.exc = "none") =>
        /\ \A h \in 1..Len(out.val) : FLess(Threshold, out.val[h].similarity_score)
        /\ ~SharesTerm(pl[out.inst], out.args.query) => out.val = <<>>

\* of two documents among the top_k, the one that scores 0 was discarded
C21_Witness ==
    /\ out.op = "search" /\ out.exc = "none" /\ out.args.top_k = 2
    /\ Len(pl[out.inst].documents) = 2 /\ Len(out.val) = 1
    /\ \E d \in 1..2 : Similarities(pl[out.inst], out.args.query)[d] = Zero

\* the number of _create_embeddings calls among the calls of one operation
Rebuilds(calls) == Occurrences(calls, "_create_embeddings")

\* C22: a construction that succeeds and every add_to_knowledge_base call
\* rebuild the index exactly once, the add after it has written the file;
\* search, statistics and prompt augmentation rebuild nothing and leave
\* pipeline and file as they are.
C22_RebuildOncePerMutation ==
    [][(out.op = "none" /\ out'.op # "none") =>
        LET i == out'.inst IN
        /\ (out'.op = "init" /\ out'.exc = "none") =>
              /\ Rebuilds(out'.calls) = 1
              /\ IndexCovers(pl'[i])
        /\ out'.op = "add" =>
              /\ out'.calls = <<"_save_knowledge_base", "_create_embeddings">>
              /\ disk'.toks = json_dump(pl'[i].knowledge_base)
              /\ out'.exc = "none" => IndexCovers(pl'[i])
        /\ out'.op \in {"search", "stats", "enhance"} =>
              /\ Rebuilds(out'.calls) = 0
              /\ pl' = pl /\ disk' = disk]_vars

\* an add has rebuilt the index over the stored document and its own
C22_Witness ==
    /\ out.op = "add" /\ out.exc = "none" /\ nAdds = 1
    /\ Rebuilds(out.calls) = 1
    /\ Len(pl[1].documents) = 2 /\ Len(pl[1].tfidf_matrix.rows) = 2
    /\ pl[1].documents[1] = WallJump

\* s is the greatest score with which content occurs among merged
IsMaxScore(merged, content, s) ==
    /\ \E i \in 1..Len(merged) :
          merged[i].content = content /\ merged[i].similarity_score = s
    /\ \A i \in 1..Len(merged) :
          merged[i].content = content => FLeq(merged[i].similarity_score, s)

\* each content is kept once, with its greatest score
KeepsMaxScore(merged, unique_info) ==
    /\ \A i \in 1..Len(merged) : DictHas(unique_info, merged[i].content)
    /\ \A u \in 1..Len(unique_info) :
          /\ unique_info[u].v.content = unique_info[u].k
          /\ IsMaxScore(merged, unique_info[u].k, unique_info[u].v.similarity_score)

BulletLines(value) == SelectSeq(value, LAMBDA l : l.kind = "bullet")

\* the bullets follow the greatest scores of their contents, highest first
RankedByMaxScore(merged, bullets) ==
    \A b \in 1..Len(bullets), c \in 1..Len(bullets) :
        b < c => \E s, t \in {merged[i].similarity_score : i \in 1..Len(merged)} :
                    /\ IsMaxScore(merged, bullets[b].text, s)
                    /\ IsMaxScore(merged, bullets[c].text, t)
                    /\ FLeq(t, s)

\* C23: in one enhance_prompt_with_rag call, the entry kept for a content
\* that several derived queries (or several documents of the same text)
\* returned carries the greatest score seen for it, and the bullets are
\* ranked by these greatest scores.
C23_KeptScoreIsMaximum ==
    (out.op = "enhance" /\ out.exc = "none") =>
        /\ KeepsMaxScore(
              Merged(Retrieved(pl[out.inst],
                               SearchQueries(out.args.game_idea, out.args.genre))),
              UniqueInfo(Merged(Retrieved(pl[out.inst],
                               SearchQueries(out.args.game_idea, out.args.genre))),
                         1, <<>>))
        /\ RankedByMaxScore(
              Merged(Retrieved(pl[out.inst],
                               SearchQueries(out.args.game_idea, out.args.genre))),
              BulletLines(out.val))

\* a content occurs first with a lower and then with a higher score
ScoreRaised(merged) ==
    \E i, j \in 1..Len(merged) :
        /\ i < j /\ merged[i].content = merged[j].content
        /\ FLess(merged[i].similarity_score, merged[j].similarity_score)

\* the derived queries returned a document first with a lower and then with
\* a higher score
C23_Witness ==
    /\ out.op = "enhance" /\ out.exc = "none"
    /\ ScoreRaised(Merged(Retrieved(pl[out.inst],
                                    SearchQueries(out.args.game_idea, out.args.genre))))

DistinctContents(merged) == {merged[i].content : i \in 1..Len(merged)}

\* no content left out scores higher than a content kept
KeepsHighest(merged, bullets) ==
    \A c \in DistinctContents(merged) :
        (\A b \in 1..Len(bullets) : bullets[b].text # c) =>
            \A b \in 1..Len(bullets) :
                \E s, t \in {merged[i].similarity_score : i \in 1..Len(merged)} :
                    /\ IsMaxScore(merged, c, s)
                    /\ IsMaxScore(merged, bullets[b].text, t)
                    /\ FLeq(s, t)

TopOfRanking(merged, bullets) ==
    /\ Len(bullets) = Retained(merged)
    /\ RankedByMaxScore(merged, bullets)
    /\ KeepsHighest(merged, bullets)

\* C24: the context block of enhance_prompt_with_rag lists its bullets in
\* descending order of score, holds at most 10 of them, and when more than
\* 10 distinct contents were retrieved keeps the 10 that score highest.
C24_TopTenDescending ==
    (out.op = "enhance" /\ out.exc = "none") =>
        /\ Len(BulletLines(out.val)) <= ContextLimit
        /\ TopOfRanking(Merged(Retrieved(pl[out.inst],
                            SearchQueries(out.args.game_idea, out.args.genre))),
                        BulletLines(out.val))

\* eleven distinct contents were retrieved and ten bullets returned
C24_Witness ==
    /\ out.op = "enhance" /\ out.exc = "none"
    /\ Len(BulletLines(out.val)) = ContextLimit
    /\ Cardinality(DistinctContents(Merged(Retrieved(pl[out.inst],
            SearchQueries(out.args.game_idea, out.args.genre))))) > ContextLimit

\* the first corpus position of the document a bullet line shows
Position(meta, line) ==
    CHOOSE d \in 1..Len(meta) :
        /\ meta[d] = [category |-> line.category, subcategory |-> line.subcategory,
                      content |-> line.text]
        /\ \A e \in 1..(d - 1) : meta[e] # meta[d]

\* bullets of equal score stand in corpus order
TiedBulletsInCorpusOrder(merged, bullets, meta) ==
    \A b \in 1..Len(bullets), c \in 1..Len(bullets) :
        (/\ b < c
         /\ \E s \in {merged[i].similarity_score : i \in 1..Len(merged)} :
               IsMaxScore(merged, bullets[b].text, s)
               /\ IsMaxScore(merged, bullets[c].text, s))
            => Position(meta, bullets[b]) < Position(meta, bullets[c])

\* C25 (as specified): in the context block of enhance_prompt_with_rag two
\* retained results of equal score appear in their corpus order.
C25_TiedBulletsInCorpusOrder ==
    (out.op = "enhance" /\ out.exc = "none") =>
        TiedBulletsInCorpusOrder(
            Merged(Retrieved(pl[out.inst],
                             SearchQueries(out.args.game_idea, out.args.genre))),
            BulletLines(out.val), pl[out.inst].document_metadata)

\* C26: enhance_prompt_with_rag leaves knowledge base, file, documents,
\* vocabulary and matrix as they are, and it returns what the caller got
\* from its last call with the same game idea and genre on this knowledge
\* base, whatever searches, statistics and augmentations of the other
\* pipeline were made in between.
C26_EnhanceIsPure ==
    [][(out.op = "none" /\ out'.op = "enhance") =>
        /\ pl' = pl /\ disk' = disk
        /\ (seen[out'.inst].set /\ seen[out'.inst].args = out'.args) =>
              /\ out'.exc = seen[out'.inst].exc
              /\ out'.val = seen[out'.inst].val]_vars

\* an augmentation with a context block has returned on a pipeline that was
\* added to; its caller got the same game idea and genre augmented before and
\* has searched or asked for statistics since
C26_Witness ==
    /\ out.op = "enhance" /\ out.exc = "none" /\ nAdds >= 1
    /\ Len(BulletLines(out.val)) >= 1
    /\ seen[out.inst].set /\ seen[out.inst].args = out.args
    /\ seen[out.inst].between

\* the words of a query whose term is in the vocabulary of the vectorizer
KnownWords(vec, query) ==
    SelectSeq(query, LAMBDA w :
        \E j \in 1..Len(vec.vocabulary) : Analyze(<<w>>) = <<vec.vocabulary[j]>>)

\* the query has a word whose term passes the analyzer and is not in the
\* vocabulary
HasUnknownTerm(vec, query) ==
    \E k \in 1..Len(query) :
        /\ Analyze(<<query[k]>>) # <<>>
        /\ \A j \in 1..Len(vec.vocabulary) : Analyze(<<query[k]>>) # <<vec.vocabulary[j]>>

\* C27: a search leaves both pipelines and the file as they are, what it
\* returned is what the same search returns on the pipeline it leaves behind,
\* and on a fitted index it is what the query returns once the words whose
\* term is not in the build-time vocabulary are taken out of it.
C27_SearchUsesBuildVocabulary ==
    [][(out.op = "none" /\ out'.op = "search") =>
        /\ pl' = pl /\ disk' = disk
        /\ \E r \in {retrieve_relevant_info(pl'[out'.inst], out'.args.query,
                                            out'.args.top_k)} :
              r.exc = out'.exc /\ r.results = out'.val
        /\ pl[out'.inst].vectorizer.fitted =>
              \E r \in {retrieve_relevant_info(pl[out'.inst],
                            KnownWords(pl[out'.inst].vectorizer, out'.args.query),
                            out'.args.top_k)} :
                  r.exc = out'.exc /\ r.results = out'.val]_vars

\* a search with a term the vocabulary lacks has found a document by the
\* term it knows
C27_Witness ==
    /\ out.op = "search" /\ out.exc = "none" /\ Len(out.val) >= 1
    /\ pl[out.inst].vectorizer.fitted
    /\ HasUnknownTerm(pl[out.inst].vectorizer, out.args.query)
    /\ KnownWords(pl[out.inst].vectorizer, out.args.query) # <<>>

\* documents and metadata line up, and a non-empty corpus has a matrix row
\* for every document
PartsAgree(p) ==
    /\ Len(p.documents) = Len(p.document_metadata)
    /\ \A k \in 1..Len(p.documents) : p.document_metadata[k].content = p.documents[k]
    /\ p.documents # <<>> =>
          /\ p.tfidf_matrix.set
          /\ Len(p.tfidf_matrix.rows) = Len(p.documents)

\* C28 (as specified): after any sequence of constructions and adds, failed
\* ones included, the documents, the metadata and the TF-IDF matrix of a
\* pipeline agree: equal lengths, metadata content equal to the document, and
\* a matrix of len(documents) rows whenever there are documents.
C28_IndexPartsAgree ==
    \A i \in Instances : pl[i].alive => PartsAgree(pl[i])

\* the file holds exactly the knowledge base of p: what p persisted with its
\* last add, or loaded when nothing was added since
Persisted(p, d) == p.alive /\ d.exists /\ d.toks = json_dump(p.knowledge_base)

\* the file can be read and holds every snippet of kb
RecordHolds(d, kb) ==
    /\ d.exists /\ json_load(d.toks).ok
    /\ ContainsAll(Flatten(json_load(d.toks).val), Flatten(kb))

\* C29 (as specified): with two pipelines on one storage location, an
\* add_to_knowledge_base by one of them leaves in the persisted record every
\* snippet the other one had persisted there before, also when the adding
\* pipeline was constructed before the other one's add.
C29_LaterAddKeepsEarlierAdd ==
    [][(out.op = "none" /\ out'.op = "add") =>
        \A j \in Instances \ {out'.inst} :
            Persisted(pl[j], call[out'.inst].before)
                => RecordHolds(disk', pl[j].knowledge_base)]_vars

\* the snippets stored at (c, s), none where the key is missing
SeqAt(kb, c, s) ==
    IF DictHas(kb, c) /\ DictHas(DictGet(kb, c), s) THEN DictGet(DictGet(kb, c), s)
    ELSE <<>>

\* the (category, subcategory) keys of a knowledge base
KeyPairs(kb) ==
    UNION {{<<kb[i].k, kb[i].v[j].k>> : j \in 1..Len(kb[i].v)} : i \in 1..Len(kb)}

\* kb1 is kb with items appended to the sequence at (c, s) and nothing else
\* changed
AppendedAt(kb, kb1, c, s, items) ==
    /\ SeqAt(kb1, c, s) = SeqAt(kb, c, s) \o items
    /\ KeyPairs(kb1) = KeyPairs(kb) \cup {<<c, s>>}
    /\ \A k \in KeyPairs(kb1) \ {<<c, s>>} : SeqAt(kb1, k[1], k[2]) = SeqAt(kb, k[1], k[2])

\* C30: add_to_knowledge_base(c, s, items) appends items, in order, to the end
\* of the sequence at (c, s) of the knowledge base of its pipeline and leaves
\* every other sequence as it is, whether or not the call raises; every other
\* step leaves the knowledge base of a constructed pipeline as it is; and
\* total_items of a constructed pipeline never decreases.
C30_AddOnlyAppends ==
    [][\A i \in Instances : pl[i].alive =>
        /\ pl'[i].alive
        /\ IF out'.op = "add" /\ out'.inst = i /\ out.op = "none"
           THEN AppendedAt(pl[i].knowledge_base, pl'[i].knowledge_base,
                           out'.args.category, out'.args.subcategory, out'.args.content)
           ELSE pl'[i].knowledge_base = pl[i].knowledge_base
        /\ get_knowledge_base_stats(pl'[i]).total_items
              >= get_knowledge_base_stats(pl[i]).total_items]_vars

\* the second add to game_design/new_cat has returned: its item stands after
\* the one stored before, and the subcategory loaded from the file is as it was
C30_Witness ==
    /\ out.op = "add" /\ out.exc = "none" /\ nAdds = 2
    /\ out.args.content = <<DoubleJump>>
    /\ SeqAt(pl[out.inst].knowledge_base, "game_design", "new_cat") = <<LetterA, DoubleJump>>
    /\ SeqAt(pl[out.inst].knowledge_base, "game_design", "platformer_mechanics")
          = <<WallJump>>

====
